---- MODULE Spec2Model ----
(***************************************************************************)
(* The AI-call orchestration core of speakpro123: the sliding-window rate  *)
(* governor (waitForRateLimit), the model fallback orchestrator            *)
(* (callWithModelFallback, in its rate-limited variant of src/types.ts     *)
(* and its plain variant of src/services/geminiService.ts) and the voice   *)
(* synthesis call that bypasses both.                                      *)
(*                                                                         *)
(* Time is the millisecond clock Date.now().  A suspended task (setTimeout)*)
(* may resume at any clock value at or after its due time.                 *)
(***************************************************************************)
EXTENDS Integers, Sequences, FiniteSets

VARIABLES
    now,                \* Date.now(), in ms
    requestTimestamps,  \* the governor's module-level array
    admitLog,           \* history: the time of every admission ever granted
    pc,                 \* per task: where the task is suspended
    wakeAt,             \* per task: due time of the pending setTimeout
    requests,           \* number of waitForRateLimit calls made by bare callers
    variant,            \* which callWithModelFallback the run executes
    models,             \* the run's chain (const models)
    maxRetries,         \* the run's maxRetries argument
    modelIdx,           \* position of the for...of loop over models (1-based)
    attempt,            \* the inner loop counter
    delay,              \* let delay
    lastError,          \* let lastError
    outcome,            \* what the run delivered to its caller
    attempts,           \* history: number of fn(model) invocations of the run
    tries,              \* history: fn invocations per chain position
    seen,               \* history: the kinds of outcome seen per chain position
    lastSettled,        \* history: the outcome of the latest settled attempt
    admits,             \* history: waitForRateLimit calls completed for the run
    sent,               \* history: requests sent to the remote service, all told
    work,               \* the consumer-facing operation that started the run
    runs,               \* number of runs started so far
    response,           \* the response fn(model) got in the latest settled attempt
    voice,              \* state of the generateTeacherVoice call
    voiceRequests,      \* history: outbound requests made by voice synthesis
    voiceVariant,       \* which generateTeacherVoice the call executes
    voiceAttempt,       \* the loop counter i of callWithRetry, 0 where there is no loop
    voiceError,         \* the error the latest request of voice synthesis failed with
    voiceModel,         \* the model the latest request of voice synthesis named
    voiceCalls,         \* number of calls of generateTeacherVoice so far
    voiceMaxRetries,    \* the maxRetries argument of callWithRetry
    voiceDelay,         \* let delay of callWithRetry, in ms, as a fraction
    voiceWakeAt,        \* due time of the pending setTimeout of callWithRetry
    voiceThrown,        \* what the call of generateTeacherVoice rejected with
    localStorage,       \* the item speakpro_api_key of the local store
    env,                \* process.env: API_KEY and GEMINI_API_KEY
    apiKeyResult,       \* what the latest call of getApiKey delivered
    keysUsed,           \* history: the key each attempt of the run resolved
    raw,                \* the parsed response of the evaluation request
    evalResult,         \* what evaluatePresentation's unit of work returned
    data,               \* decodeAudioData: the bytes of the PCM buffer (data)
    numChannels,        \* decodeAudioData: the numChannels argument
    buffer,             \* decodeAudioData: the AudioBuffer it resolved with
    status,             \* App: the status hook (AppStatus)
    presentation,       \* App: the presentation hook
    result,             \* App: the result hook
    errorMessage,       \* App: the errorMessage hook
    showSettings,       \* App: the showSettings hook
    recordedBlob,       \* App: the recordedBlob hook
    lastAlert,          \* App: the message of the latest alert()
    inflight,           \* App: the handlers suspended at an await of a service call
    isAudioLoading,     \* App: the isAudioLoading hook
    teacherAudioUrl,    \* App: the teacherAudioUrl hook
    preloadFailed       \* history: the latest preload to settle ended in its catch block

govVars == <<requestTimestamps, admitLog>>
runVars == <<variant, models, maxRetries, modelIdx, attempt, delay, lastError,
             outcome, attempts, tries, seen, lastSettled, admits, sent, work, runs,
             response>>
voiceVars == <<voice, voiceRequests, voiceVariant, voiceAttempt, voiceError, voiceModel,
               voiceCalls, voiceMaxRetries, voiceDelay, voiceWakeAt, voiceThrown>>
keyVars == <<localStorage, env, apiKeyResult>>
evalVars == <<raw, evalResult>>
pureVars == <<localStorage, env, apiKeyResult, keysUsed, raw, evalResult>>
audioVars == <<data, numChannels, buffer>>
mediaVars == <<isAudioLoading, teacherAudioUrl, preloadFailed>>
appVars == <<status, presentation, result, errorMessage, showSettings, recordedBlob,
             lastAlert, inflight, mediaVars>>
vars == <<now, requestTimestamps, admitLog, pc, wakeAt, requests, variant,
          models, maxRetries, modelIdx, attempt, delay, lastError, outcome,
          attempts, tries, seen, lastSettled, admits, sent, work, runs, response,
          voice, voiceRequests, voiceVariant, voiceAttempt, voiceError, voiceModel,
          voiceCalls, voiceMaxRetries, voiceDelay, voiceWakeAt, voiceThrown,
          localStorage, env, apiKeyResult, keysUsed,
          raw, evalResult, data, numChannels, buffer, status, presentation, result,
          errorMessage, showSettings, recordedBlob, lastAlert, inflight,
          isAudioLoading, teacherAudioUrl, preloadFailed>>

(***************************************************************************)
(* Bounds of the model.                                                    *)
(***************************************************************************)
MaxTime == 130000        \* no time passes freely beyond this clock value
MaxRetriesArg == 3       \* largest maxRetries argument explored
MaxRequests == 10        \* waitForRateLimit calls made by the bare callers
MaxRuns == 3             \* consumer-facing operations started one after another
MaxKeyLen == 3           \* longest credential string, in characters

Fg == "fg"               \* the task that executes the orchestrator run
Callers == {"c1", "c2"}  \* concurrent bare callers of waitForRateLimit
Tasks == {Fg} \cup Callers

(***************************************************************************)
(* Program constants.                                                      *)
(***************************************************************************)
MAX_RPM == 8
None == [status |-> 0, body |-> {"<none>"}]
Ok == [status |-> 200, body |-> {}]

\* The chains of the source.
MODEL_FALLBACK_CHAIN == <<"gemini-2.5-flash-lite", "gemini-2.5-flash">>
SVC_FALLBACK_CHAIN == <<"gemini-1.5-flash", "gemini-1.5-pro", "gemini-1.0-pro">>
SVC_IMAGE_CHAIN == <<"gemini-1.5-flash", "gemini-1.5-pro">>

\* const models, as each variant selects it from modelType.
ModelsFor(v, modelType) ==
    IF v = "rl" THEN MODEL_FALLBACK_CHAIN
    ELSE IF modelType = "image" THEN SVC_IMAGE_CHAIN ELSE SVC_FALLBACK_CHAIN

\* maxRetries = 2 (types.ts), maxRetries = 3 (geminiService.ts)
DefaultMaxRetries(v) == IF v = "rl" THEN 2 ELSE 3

\* Chains explored when the loops are exercised as a function of `models`:
\* every non-empty prefix of the longest chain of the source.
ChainInputs == {SubSeq(SVC_FALLBACK_CHAIN, 1, n) : n \in 1..Len(SVC_FALLBACK_CHAIN)}

\* Errors the unit of work can throw: an HTTP-like status (0: no status
\* property) and the markers found in JSON.stringify(err).toLowerCase().
ProviderErrors ==
    { [status |-> 404, body |-> {}],
      [status |-> 429, body |-> {}],
      [status |-> 503, body |-> {}],
      [status |-> 400, body |-> {}],
      [status |-> 0,   body |-> {"resource_exhausted"}],
      [status |-> 429, body |-> {"not_found"}] }

(***************************************************************************)
(* Credential resolver: getApiKey, createAIClient, saveSettings.           *)
(* A string is its sequence of characters; Null is null or undefined.      *)
(***************************************************************************)
Chars == {" ", "a"}
Texts == UNION {[1..k -> Chars] : k \in 0..MaxKeyLen}
Str(t) == [present |-> TRUE, text |-> t]
Null == [present |-> FALSE, text |-> <<>>]
KeyValues == {Null} \cup {Str(t) : t \in Texts}

\* JavaScript truthiness of a string-or-null value.
Truthy(x) == x.present /\ Len(x.text) > 0

RECURSIVE TrimStart(_)
TrimStart(t) == IF Len(t) > 0 /\ Head(t) = " " THEN TrimStart(Tail(t)) ELSE t

RECURSIVE TrimEnd(_)
TrimEnd(t) ==
    IF Len(t) > 0 /\ t[Len(t)] = " " THEN TrimEnd(SubSeq(t, 1, Len(t) - 1)) ELSE t

\* String.prototype.trim
trim(x) == Str(TrimEnd(TrimStart(x.text)))

\* a || b
Or(a, b) == IF Truthy(a) THEN a ELSE b

Returns(x) == [kind |-> "return", value |-> x, error |-> ""]
MissingCredential == [kind |-> "throw", value |-> Null, error |-> "MissingCredential"]
NoCall == [kind |-> "none", value |-> Null, error |-> ""]

\* process.env.API_KEY || process.env.GEMINI_API_KEY (types.ts),
\* process.env.API_KEY (geminiService.ts)
EnvKey(v, e) == IF v = "rl" THEN Or(e.API_KEY, e.GEMINI_API_KEY) ELSE e.API_KEY

\* Variant: the environment value is looked at first.
getApiKeyEnvFirst(v, store, e) ==
    LET userKey == store
        envKey == EnvKey(v, e)
    IN  IF Truthy(envKey) /\ Truthy(trim(envKey)) THEN Returns(trim(envKey))
        ELSE IF Truthy(userKey) /\ Truthy(trim(userKey)) THEN Returns(trim(userKey))
        ELSE MissingCredential

\* Variant: with no usable key the function returns the empty string.
getApiKeyEmpty(v, store, e) ==
    LET userKey == store
        envKey == EnvKey(v, e)
    IN  IF Truthy(userKey) /\ Truthy(trim(userKey)) THEN Returns(trim(userKey))
        ELSE IF Truthy(envKey) /\ Truthy(trim(envKey)) THEN Returns(trim(envKey))
        ELSE Returns(Str(<<>>))

getApiKey(v, store, e) ==
    LET userKey == store
        envKey == EnvKey(v, e)
    IN  IF Truthy(userKey) /\ Truthy(trim(userKey)) THEN Returns(trim(userKey))
        ELSE IF Truthy(envKey) /\ Truthy(trim(envKey)) THEN Returns(trim(envKey))
        ELSE MissingCredential

\* new GoogleGenAI({ apiKey: getApiKey() }): the key the client is built with
createAIClient(v) == getApiKey(v, localStorage, env)

\* getApiKey() of module v is called on its own.
CallGetApiKey(v) ==
    /\ variant' = v
    /\ apiKeyResult' = getApiKey(v, localStorage, env)
    /\ UNCHANGED <<now, govVars, pc, wakeAt, requests, models, maxRetries, modelIdx,
                   attempt, delay, lastError, outcome, attempts, tries, seen,
                   lastSettled, admits, sent, work, runs, response, voiceVars, localStorage, env,
                   keysUsed, evalVars, audioVars, appVars>>

\* Variant: the key is stored before the field is tested.
saveSettingsStoresFirst(apiKey) ==
    /\ showSettings
    /\ localStorage' = trim(apiKey)
    /\ IF ~Truthy(trim(apiKey))
       THEN /\ lastAlert' = "EmptyKey"
            /\ UNCHANGED <<errorMessage, status, showSettings>>
       ELSE /\ errorMessage' = "null"
            /\ status' = IF errorMessage # "null" /\ status = "ERROR"
                          THEN IF presentation # "null" THEN "READY" ELSE "IDLE"
                          ELSE status
            /\ showSettings' = FALSE
            /\ lastAlert' = "Saved"
    /\ UNCHANGED <<now, govVars, pc, wakeAt, requests, runVars, voiceVars,
                   env, apiKeyResult, keysUsed, evalVars, audioVars, presentation,
                   result, recordedBlob, inflight, mediaVars>>

\* A saveSettings that clears the error and leaves status alone.
saveSettingsKeepsStatus(apiKey) ==
    /\ showSettings
    /\ IF ~Truthy(trim(apiKey))
       THEN /\ lastAlert' = "EmptyKey"
            /\ UNCHANGED <<localStorage, errorMessage, status, showSettings>>
       ELSE /\ localStorage' = trim(apiKey)
            /\ errorMessage' = "null"
            /\ status' = status
            /\ showSettings' = FALSE
            /\ lastAlert' = "Saved"
    /\ UNCHANGED <<now, govVars, pc, wakeAt, requests, runVars, voiceVars,
                   env, apiKeyResult, keysUsed, evalVars, audioVars, presentation,
                   result, recordedBlob, inflight, mediaVars>>

\* saveSettings, the button of the Settings dialog, with the field holding
\* apiKey: an empty key is refused with an alert; any other is stored
\* trimmed, the error is cleared and the dialog is closed.
saveSettings(apiKey) ==
    /\ showSettings
    /\ IF ~Truthy(trim(apiKey))
       THEN /\ lastAlert' = "EmptyKey"
            /\ UNCHANGED <<localStorage, errorMessage, status, showSettings>>
       ELSE /\ localStorage' = trim(apiKey)
            /\ errorMessage' = "null"
            /\ status' = IF errorMessage # "null" /\ status = "ERROR"
                          THEN IF presentation # "null" THEN "READY" ELSE "IDLE"
                          ELSE status
            /\ showSettings' = FALSE
            /\ lastAlert' = "Saved"
    /\ UNCHANGED <<now, govVars, pc, wakeAt, requests, runVars, voiceVars,
                   env, apiKeyResult, keysUsed, evalVars, audioVars, presentation,
                   result, recordedBlob, inflight, mediaVars>>

(***************************************************************************)
(* Score normalizer: evaluatePresentation, after the response is parsed.   *)
(* A number is the exact fraction n/d; Undefined is a missing field.  The   *)
(* parsed response can also hold null or a string where a number is        *)
(* expected, and arithmetic on a value that is no number gives NaN.        *)
(***************************************************************************)
Num(n, d) == [kind |-> "number", n |-> n, d |-> d]
Undefined == [kind |-> "undefined", n |-> 0, d |-> 1]
NullValue == [kind |-> "null", n |-> 0, d |-> 1]
NaN == [kind |-> "NaN", n |-> 0, d |-> 1]
\* A string that holds no numeral, such as "good", and the empty string.
NonNumeric == [kind |-> "string", n |-> 1, d |-> 1]
EmptyString == [kind |-> "string", n |-> 0, d |-> 1]
IsNumber(a) == a.kind = "number"

Fields == {"pronunciation", "fluency", "intonation", "vocabulary", "grammar",
           "taskFulfillment"}

\* Sub-scores the remote response can carry: missing, negative, zero,
\* fractional (one with more than one decimal, one on a rounding tie),
\* above 10 by a fraction and by far.
RawScores ==
    {Undefined, Num(-50, 100), Num(0, 1), Num(3, 10), Num(745, 100), Num(1004, 100),
     Num(12, 1)}

\* a < b
Less(a, b) == a.n * b.d < b.n * a.d
\* Math.max and Math.min return NaN when an argument is NaN.
MathMax(a, b) == IF ~IsNumber(a) \/ ~IsNumber(b) THEN NaN ELSE IF Less(a, b) THEN b ELSE a
MathMin(a, b) == IF ~IsNumber(a) \/ ~IsNumber(b) THEN NaN ELSE IF Less(b, a) THEN b ELSE a

\* The same number in lowest terms.
RECURSIVE GCD(_, _)
GCD(a, b) == IF b = 0 THEN a ELSE GCD(b, a % b)
Abs(a) == IF a < 0 THEN -a ELSE a
Lowest(n, d) == LET g == GCD(Abs(n), d) IN Num(n \div g, d \div g)

Plus(a, b) ==
    IF ~IsNumber(a) \/ ~IsNumber(b) THEN NaN ELSE Lowest(a.n * b.d + b.n * a.d, a.d * b.d)
DividedBy(a, k) == IF ~IsNumber(a) THEN NaN ELSE Lowest(a.n, a.d * k)

\* val || 0: undefined, null, NaN, 0 and the empty string are falsy.
Falsy(val) == val.kind \in {"undefined", "null", "NaN"} \/ val.n = 0
OrZero(val) == IF Falsy(val) THEN Num(0, 1) ELSE val

\* Math.round(num * 10): the nearest integer, a tie going up
MathRound10(num) == (20 * num.n + num.d) \div (2 * num.d)

\* Math.round(num * 10) / 10: a string that holds no numeral converts to NaN.
RoundedToTenth(num) == IF IsNumber(num) THEN Num(MathRound10(num), 10) ELSE NaN

\* Variant: the rounded value is not clamped.
normalizeNoClamp(val) ==
    LET num == OrZero(val) IN RoundedToTenth(num)

normalize(val) ==
    LET num == OrZero(val)
    IN  MathMin(Num(10, 1), MathMax(Num(0, 1), RoundedToTenth(num)))

\* Variant: the average is taken over the values of the response.
evaluateRawMean(r) ==
    LET evalRes == [f \in Fields |-> normalize(r[f])]
        avg == DividedBy(Plus(Plus(Plus(Plus(Plus(OrZero(r["pronunciation"]),
                   OrZero(r["fluency"])), OrZero(r["intonation"])),
                   OrZero(r["vocabulary"])), OrZero(r["grammar"])),
                   OrZero(r["taskFulfillment"])), 6)
        score == normalize(avg)
    IN  [f \in Fields \cup {"score"} |-> IF f = "score" THEN score ELSE evalRes[f]]

\* The object the unit of work returns, from the parsed response r:
\* { ...evalResult, score, ... }
evaluate(r) ==
    LET evalRes == [f \in Fields |-> normalize(r[f])]
        avg == DividedBy(Plus(Plus(Plus(Plus(Plus(evalRes["pronunciation"],
                   evalRes["fluency"]), evalRes["intonation"]), evalRes["vocabulary"]),
                   evalRes["grammar"]), evalRes["taskFulfillment"]), 6)
        score == normalize(avg)
    IN  [f \in Fields \cup {"score"} |-> IF f = "score" THEN score ELSE evalRes[f]]

\* The response has been parsed into raw: the scores are normalized.
Evaluate ==
    /\ evalResult = <<>>
    /\ evalResult' = evaluate(raw)
    /\ UNCHANGED <<now, govVars, pc, wakeAt, requests, runVars, voiceVars, keyVars,
                   keysUsed, raw, audioVars, appVars>>

(***************************************************************************)
(* Audio decoding: decodeAudioData.  The bytes are a sequence (byte k of   *)
(* the source is element k + 1); a channel's samples are a function over   *)
(* 0..frameCount - 1, as in the source.                                    *)
(***************************************************************************)
MaxFrames == 2           \* longest PCM buffer, in frames
MaxChannels == 2         \* largest numChannels argument

\* 16-bit samples as byte pairs, low byte first: 0, 1, 32767, -32768, -1.
SamplePairs == {<<0, 0>>, <<1, 0>>, <<255, 127>>, <<0, 128>>, <<255, 255>>}

\* The byte buffers of n samples.
PcmBuffers(n) ==
    {[k \in 1..(2 * n) |-> ps[(k + 1) \div 2][2 - (k % 2)]] : ps \in [1..n -> SamplePairs]}

NoBuffer == [numberOfChannels |-> 0, length |-> 0, channelData |-> <<>>]

\* Variant: the view over the bytes is unsigned (Uint16Array).
Uint16At(bytes, k) == bytes[2 * k + 1] + 256 * bytes[2 * k + 2]

\* new Int16Array(data.buffer)[k]: two bytes, low byte first, two's complement
Int16At(bytes, k) ==
    LET u == bytes[2 * k + 1] + 256 * bytes[2 * k + 2]
    IN  IF u >= 32768 THEN u - 65536 ELSE u

\* dataInt16.length
Int16Length(bytes) == Len(bytes) \div 2

\* Variant: the samples of a channel are taken as one contiguous block.
SampleIndexPlanar(i, channels, channel, frameCount) == channel * frameCount + i

\* i * numChannels + channel
SampleIndex(i, channels, channel, frameCount) == i * channels + channel

decodeAudioData(bytes, channels) ==
    LET frameCount == Int16Length(bytes) \div channels
    IN  [numberOfChannels |-> channels,
         length |-> frameCount,
         channelData |->
            [channel \in 0..(channels - 1) |->
                [i \in 0..(frameCount - 1) |->
                    Lowest(Int16At(bytes, SampleIndex(i, channels, channel, frameCount)),
                           32768)]]]

\* decodeAudioData(data, ctx, sampleRate, numChannels) resolves.
DecodeAudio ==
    /\ buffer = NoBuffer
    /\ buffer' = decodeAudioData(data, numChannels)
    /\ UNCHANGED <<now, govVars, pc, wakeAt, requests, runVars, voiceVars, pureVars,
                   data, numChannels, appVars>>

(***************************************************************************)
(* Rate governor: waitForRateLimit.                                        *)
(***************************************************************************)
\* Variant: the prune drops entries older than 6 seconds.
RECURSIVE PruneShortWindow(_, _)
PruneShortWindow(ts, t) ==
    IF Len(ts) > 0 /\ ts[1] < t - 6000 THEN PruneShortWindow(Tail(ts), t) ELSE ts

\* Variant: the prune is an if, not a loop; it drops one entry at most.
PruneOnce(ts, t) ==
    IF Len(ts) > 0 /\ ts[1] < t - 60000 THEN Tail(ts) ELSE ts

RECURSIVE Prune(_, _)
Prune(ts, t) ==
    IF Len(ts) > 0 /\ ts[1] < t - 60000 THEN Prune(Tail(ts), t) ELSE ts

\* Variant: the window length is left out of the wait.
WaitTimeNoWindow(ts, t) == ts[1] - t + 500

WaitTime(ts, t) == ts[1] + 60000 - t + 500

Record(ts, t) == Append(ts, t)

\* The synchronous prefix of waitForRateLimit, run by task p at the call:
\* prune, then either suspend (setTimeout) or record and return.
GovEnter(p) ==
    LET kept == Prune(requestTimestamps, now) IN
    IF Len(kept) >= MAX_RPM
    THEN /\ requestTimestamps' = kept
         /\ admitLog' = admitLog
         /\ pc' = [pc EXCEPT ![p] = "rlwait"]
         /\ wakeAt' = [wakeAt EXCEPT ![p] = now + WaitTime(kept, now)]
    ELSE /\ requestTimestamps' = Record(kept, now)
         /\ admitLog' = Append(admitLog, now)
         /\ pc' = [pc EXCEPT ![p] = "invoke"]
         /\ wakeAt' = wakeAt

\* Variant: the timer's callback never resolves the awaited promise.
GovResumeUnresolved(p) ==
    /\ pc[p] = "rlwait"
    /\ now >= wakeAt[p]
    /\ UNCHANGED <<requestTimestamps, admitLog, pc, wakeAt>>

\* The timer of a suspended waitForRateLimit fires: record and return.
GovResume(p) ==
    /\ pc[p] = "rlwait"
    /\ now >= wakeAt[p]
    /\ requestTimestamps' = Record(requestTimestamps, now)
    /\ admitLog' = Append(admitLog, now)
    /\ pc' = [pc EXCEPT ![p] = "invoke"]
    /\ UNCHANGED wakeAt

(***************************************************************************)
(* Model fallback orchestrator: callWithModelFallback.                     *)
(***************************************************************************)
Includes(err, marker) == marker \in err.body

IsNotFound(err) == err.status = 404 \/ Includes(err, "not_found")

IsRateLimit(v, err) ==
    \/ err.status = 429
    \/ Includes(err, "quota")
    \/ Includes(err, "rate limit")
    \/ (v = "rl" /\ Includes(err, "resource_exhausted"))

IsServerError(err) == err.status >= 500 \/ Includes(err, "internal error")

\* The kind of an attempt's outcome, in the order the catch block of
\* src/types.ts tests them.
KindOf(o) ==
    IF o = Ok THEN "ok"
    ELSE IF IsNotFound(o) THEN "not_found"
    ELSE IF IsRateLimit("rl", o) THEN "rate_limit"
    ELSE IF IsServerError(o) THEN "server"
    ELSE "other"

\* models.indexOf(model), 1-based
IndexOf(ms, m) == CHOOSE i \in 1..Len(ms) : ms[i] = m /\ \A j \in 1..(i - 1) : ms[j] # m

HasNextModel(ms, idx) == IndexOf(ms, ms[idx]) < Len(ms)

BaseDelay(v) == IF v = "rl" THEN 3000 ELSE 1500

\* delay *= 2 (types.ts) and delay *= 2.5 (geminiService.ts; exact for every
\* delay the bounds let a timer wait on: 1500, 3750, 9375)
NextDelay(v, d) == IF v = "rl" THEN d * 2 ELSE (d * 5) \div 2

\* Variant: a rate-limited attempt waits the plain delay, as a server error.
OnErrorRLPlainWait(err, att, mr, ms, idx, d) ==
    IF IsNotFound(err) THEN [do |-> "break", wait |-> 0]
    ELSE IF IsRateLimit("rl", err) /\ att < mr - 1 THEN [do |-> "retry", wait |-> d]
    ELSE IF IsServerError(err) /\ att < mr - 1 THEN [do |-> "retry", wait |-> d]
    ELSE IF HasNextModel(ms, idx) THEN [do |-> "break", wait |-> 0]
    ELSE [do |-> "throw", wait |-> 0]

\* Variant: the not-found test is missing from the catch block.
OnErrorRLNoNotFound(err, att, mr, ms, idx, d) ==
    IF IsRateLimit("rl", err) /\ att < mr - 1 THEN [do |-> "retry", wait |-> d * 2]
    ELSE IF IsServerError(err) /\ att < mr - 1 THEN [do |-> "retry", wait |-> d]
    ELSE IF HasNextModel(ms, idx) THEN [do |-> "break", wait |-> 0]
    ELSE [do |-> "throw", wait |-> 0]

\* Variant: a rate-limited attempt is retried only while two retries remain.
OnErrorRLShortRetry(err, att, mr, ms, idx, d) ==
    IF IsNotFound(err) THEN [do |-> "break", wait |-> 0]
    ELSE IF IsRateLimit("rl", err) /\ att < mr - 2 THEN [do |-> "retry", wait |-> d * 2]
    ELSE IF IsServerError(err) /\ att < mr - 1 THEN [do |-> "retry", wait |-> d]
    ELSE IF HasNextModel(ms, idx) THEN [do |-> "break", wait |-> 0]
    ELSE [do |-> "throw", wait |-> 0]

\* Variant: every error is retried while attempts remain.
OnErrorRLRetriesAll(err, att, mr, ms, idx, d) ==
    IF IsNotFound(err) THEN [do |-> "break", wait |-> 0]
    ELSE IF att < mr - 1 THEN [do |-> "retry", wait |-> d]
    ELSE IF HasNextModel(ms, idx) THEN [do |-> "break", wait |-> 0]
    ELSE [do |-> "throw", wait |-> 0]

\* Variant: the rate-limit and server tests come before the not-found test.
OnErrorRLNotFoundLast(err, att, mr, ms, idx, d) ==
    IF IsRateLimit("rl", err) /\ att < mr - 1 THEN [do |-> "retry", wait |-> d * 2]
    ELSE IF IsServerError(err) /\ att < mr - 1 THEN [do |-> "retry", wait |-> d]
    ELSE IF IsNotFound(err) THEN [do |-> "break", wait |-> 0]
    ELSE IF HasNextModel(ms, idx) THEN [do |-> "break", wait |-> 0]
    ELSE [do |-> "throw", wait |-> 0]

\* The catch block of the rate-limited variant: what the failed attempt
\* leads to.  "retry" carries the backoff wait.
OnErrorRL(err, att, mr, ms, idx, d) ==
    IF IsNotFound(err) THEN [do |-> "break", wait |-> 0]
    ELSE IF IsRateLimit("rl", err) /\ att < mr - 1 THEN [do |-> "retry", wait |-> d * 2]
    ELSE IF IsServerError(err) /\ att < mr - 1 THEN [do |-> "retry", wait |-> d]
    ELSE IF HasNextModel(ms, idx) THEN [do |-> "break", wait |-> 0]
    ELSE [do |-> "throw", wait |-> 0]

\* The catch block of the plain variant.
OnErrorSvc(err, att, mr, ms, idx, d) ==
    IF (IsRateLimit("svc", err) \/ IsServerError(err)) /\ att < mr - 1
    THEN [do |-> "retry", wait |-> d]
    ELSE IF HasNextModel(ms, idx) THEN [do |-> "break", wait |-> 0]
    ELSE [do |-> "throw", wait |-> 0]

OnError(v, err, att, mr, ms, idx, d) ==
    IF v = "rl" THEN OnErrorRL(err, att, mr, ms, idx, d)
    ELSE OnErrorSvc(err, att, mr, ms, idx, d)

\* The error thrown after the loops: a new Error with the remediation text.
\* Only the plain variant appends lastError's message to it.
Synthesized(v, err) == [kind |-> "synth", err |-> IF v = "rl" THEN None ELSE err, model |-> ""]
Raw(err) == [kind |-> "raw", err |-> err, model |-> ""]
Value(m) == [kind |-> "value", err |-> None, model |-> m]
NoOutcome == [kind |-> "none", err |-> None, model |-> ""]

(***************************************************************************)
(* The units of work handed to callWithModelFallback: what each does with  *)
(* the response of its request.                                            *)
(***************************************************************************)
\* response.text is JSON text, is missing (undefined or empty) or cannot be
\* parsed; the first part of the first candidate holds inline data or not.
NoResponse == [text |-> "none", inlineData |-> FALSE]
Responses == [text : {"json", "missing", "unparsable"}, inlineData : BOOLEAN]

\* What a rejected fn(model) throws besides the errors of the service:
\* neither has a status, and JSON.stringify gives "{}" for both.
SyntaxError == [status |-> 0, body |-> {"<SyntaxError>"}]
NoImageError == [status |-> 0, body |-> {"<no image>"}]

Throws(err) == [kind |-> "throw", value |-> "", err |-> err]
Gives(x) == [kind |-> "return", value |-> x, err |-> None]

\* response.text || '{}'
TextOr(text) == IF text = "missing" THEN "{}" ELSE text

\* JSON.parse: the object the text denotes, or a SyntaxError.
JSONParse(text) ==
    IF text = "unparsable" THEN Throws(SyntaxError)
    ELSE IF text = "{}" THEN Gives("{}") ELSE Gives("object")

\* The rubric fields of a parsed response; the empty object has none.
RubricOf(obj) ==
    [f \in Fields \cup {"score"} |->
        IF obj = "{}" \/ f = "score" THEN Undefined ELSE Num(745, 100)]

\* The unit of work of work type w, from the response on.
UnitOfWork(w, resp) ==
    IF w = "illustration"
    THEN IF resp.inlineData THEN Gives("data:image/png") ELSE Throws(NoImageError)
    ELSE LET parsed == JSONParse(TextOr(resp.text)) IN
         IF parsed.kind = "throw" THEN parsed
         ELSE IF w = "evaluation" THEN Gives(evaluate(RubricOf(parsed.value)))
         ELSE parsed

\* Variant: only the first attempt on a model awaits waitForRateLimit.
TryModelFirstOnly(v, a) ==
    IF v = "rl" /\ attempt' = 0
    THEN /\ GovEnter(Fg)
         /\ admits' = IF pc'[Fg] = "invoke" THEN a + 1 ELSE a
    ELSE /\ pc' = [pc EXCEPT ![Fg] = "invoke"]
         /\ admits' = a
         /\ UNCHANGED <<requestTimestamps, admitLog, wakeAt>>

\* Top of the try block: the rate-limited variant awaits waitForRateLimit,
\* the plain variant goes straight to fn(model).
TryModel(v, a) ==
    IF v = "rl"
    THEN /\ GovEnter(Fg)
         /\ admits' = IF pc'[Fg] = "invoke" THEN a + 1 ELSE a
    ELSE /\ pc' = [pc EXCEPT ![Fg] = "invoke"]
         /\ admits' = a
         /\ UNCHANGED <<requestTimestamps, admitLog, wakeAt>>

\* callWithModelFallback(fn, modelType, maxRetries) is called.
StartRun(w, v, ms, mr) ==
    /\ pc[Fg] \in {"idle", "returned", "thrown"}
    /\ runs' = runs + 1
    /\ variant' = v
    /\ models' = ms
    /\ maxRetries' = mr
    /\ modelIdx' = 1
    /\ attempt' = 0
    /\ delay' = BaseDelay(v)
    /\ lastError' = None
    /\ outcome' = NoOutcome
    /\ attempts' = 0
    /\ tries' = [i \in 1..Len(ms) |-> 0]
    /\ seen' = [i \in 1..Len(ms) |-> {}]
    /\ lastSettled' = None
    /\ work' = w
    /\ TryModel(v, 0)
    /\ keysUsed' = <<>>
    /\ response' = NoResponse
    /\ UNCHANGED <<now, requests, sent, voiceVars, keyVars, evalVars, audioVars, appVars>>

\* The suspended waitForRateLimit of the run resumes.
RunAdmitted ==
    /\ GovResume(Fg)
    /\ admits' = admits + 1
    /\ UNCHANGED <<now, requests, variant, models, maxRetries, modelIdx, attempt, delay,
                   lastError, outcome, attempts, tries, seen, lastSettled, sent, work,
                   runs, response, voiceVars, pureVars, audioVars, appVars>>

\* Variant: the client is created once, with the first attempt of the run.
InvokeCachedKey ==
    /\ pc[Fg] = "invoke"
    /\ pc' = [pc EXCEPT ![Fg] = "call"]
    /\ attempts' = attempts + 1
    /\ tries' = [tries EXCEPT ![modelIdx] = @ + 1]
    /\ sent' = sent + 1
    /\ createAIClient(variant).kind = "return"
    /\ keysUsed' = Append(keysUsed, IF keysUsed = <<>> THEN createAIClient(variant).value
                                    ELSE keysUsed[1])
    /\ UNCHANGED <<now, govVars, wakeAt, requests, variant, models, maxRetries,
                   modelIdx, attempt, delay, lastError, outcome, seen, lastSettled,
                   admits, work, runs, response, voiceVars, keyVars, evalVars, audioVars, appVars>>

\* fn(model) is invoked: createAIClient() resolves the key and the request
\* is in flight.  The runs are explored with a key in the local store.
Invoke ==
    /\ pc[Fg] = "invoke"
    /\ pc' = [pc EXCEPT ![Fg] = "call"]
    /\ attempts' = attempts + 1
    /\ tries' = [tries EXCEPT ![modelIdx] = @ + 1]
    /\ sent' = sent + 1
    /\ createAIClient(variant).kind = "return"
    /\ keysUsed' = Append(keysUsed, createAIClient(variant).value)
    /\ UNCHANGED <<now, govVars, wakeAt, requests, variant, models, maxRetries,
                   modelIdx, attempt, delay, lastError, outcome, seen, lastSettled,
                   admits, work, runs, response, voiceVars, keyVars, evalVars, audioVars, appVars>>

\* What getApiKey throws: an Error with no status, JSON.stringify gives "{}".
MissingCredentialError == [status |-> 0, body |-> {"<MissingCredential>"}]

\* fn(model) is invoked with no key to be had: createAIClient() throws before
\* any request is made, and the promise awaited is a rejected one.
InvokeWithoutKey ==
    /\ pc[Fg] = "invoke"
    /\ pc' = [pc EXCEPT ![Fg] = "call"]
    /\ attempts' = attempts + 1
    /\ tries' = [tries EXCEPT ![modelIdx] = @ + 1]
    /\ createAIClient(variant).kind = "throw"
    /\ keysUsed' = Append(keysUsed, Null)
    /\ UNCHANGED <<now, govVars, wakeAt, requests, variant, models, maxRetries,
                   modelIdx, attempt, delay, lastError, outcome, seen, lastSettled,
                   admits, sent, work, runs, response, voiceVars, keyVars, evalVars,
                   audioVars, appVars>>

\* return await fn(model)
ReturnResult(m) == Value(m)

\* Variant: the result of fn(model) is awaited but not returned, and the
\* inner loop goes on.
AttemptSucceedsNoReturn ==
    /\ pc[Fg] = "call"
    /\ attempt + 1 < maxRetries
    /\ attempt' = attempt + 1
    /\ TryModel(variant, admits)
    /\ seen' = [seen EXCEPT ![modelIdx] = @ \cup {KindOf(Ok)}]
    /\ lastSettled' = Ok
    /\ UNCHANGED <<now, requests, variant, models, maxRetries, modelIdx, delay,
                   lastError, outcome, attempts, tries, sent, work, runs, response, voiceVars, pureVars, audioVars, appVars>>

\* fn(model) resolves, its request answered with resp: the run returns.
AttemptSucceedsWith(resp) ==
    /\ pc[Fg] = "call"
    /\ pc' = [pc EXCEPT ![Fg] = "returned"]
    /\ outcome' = ReturnResult(models[modelIdx])
    /\ seen' = [seen EXCEPT ![modelIdx] = @ \cup {KindOf(Ok)}]
    /\ lastSettled' = Ok
    /\ response' = resp
    /\ UNCHANGED <<now, govVars, wakeAt, requests, variant, models, maxRetries,
                   modelIdx, attempt, delay, lastError, attempts, tries, admits, sent,
                   work, runs, voiceVars, pureVars, audioVars, appVars>>

\* fn(model) resolves, nothing being said of the response it worked on.
AttemptSucceeds == AttemptSucceedsWith(NoResponse)

\* Variant: delay is declared outside the loop over the models.
NextModelKeepsDelay ==
    IF modelIdx < Len(models)
    THEN /\ modelIdx' = modelIdx + 1
         /\ attempt' = 0
         /\ delay' = delay
         /\ TryModel(variant, admits)
         /\ UNCHANGED outcome
    ELSE /\ pc' = [pc EXCEPT ![Fg] = "thrown"]
         /\ outcome' = Synthesized(variant, lastError')
         /\ attempt' = 0
         /\ UNCHANGED <<modelIdx, delay, govVars, wakeAt, admits>>

\* Variant: the outer loop steps over the model that follows.
NextModelSkipsOne ==
    IF modelIdx < Len(models)
    THEN /\ modelIdx' = IF modelIdx + 2 <= Len(models) THEN modelIdx + 2 ELSE modelIdx + 1
         /\ attempt' = 0
         /\ delay' = BaseDelay(variant)
         /\ TryModel(variant, admits)
         /\ UNCHANGED outcome
    ELSE /\ pc' = [pc EXCEPT ![Fg] = "thrown"]
         /\ outcome' = Synthesized(variant, lastError')
         /\ attempt' = 0
         /\ UNCHANGED <<modelIdx, delay, govVars, wakeAt, admits>>

\* The inner loop is left (break, or its condition fails): the for...of
\* loop moves on, or ends and the final throw is reached.
NextModel ==
    IF modelIdx < Len(models)
    THEN /\ modelIdx' = modelIdx + 1
         /\ attempt' = 0
         /\ delay' = BaseDelay(variant)
         /\ TryModel(variant, admits)
         /\ UNCHANGED outcome
    ELSE /\ pc' = [pc EXCEPT ![Fg] = "thrown"]
         /\ outcome' = Synthesized(variant, lastError')
         /\ attempt' = 0
         /\ UNCHANGED <<modelIdx, delay, govVars, wakeAt, admits>>

\* fn(model) rejects with err, its request answered with resp or not
\* answered: the catch block.
AttemptFailsWith(err, resp) ==
    /\ pc[Fg] = "call"
    /\ response' = resp
    /\ lastError' = err
    /\ seen' = [seen EXCEPT ![modelIdx] = @ \cup {KindOf(err)}]
    /\ lastSettled' = err
    /\ LET d == OnError(variant, err, attempt, maxRetries, models, modelIdx, delay) IN
       \/ /\ d.do = "retry"
          /\ pc' = [pc EXCEPT ![Fg] = "backoff"]
          /\ wakeAt' = [wakeAt EXCEPT ![Fg] = now + d.wait]
          /\ UNCHANGED <<modelIdx, attempt, delay, outcome, govVars, admits>>
       \/ /\ d.do = "break"
          /\ NextModel
       \/ /\ d.do = "throw"
          /\ pc' = [pc EXCEPT ![Fg] = "thrown"]
          /\ outcome' = Raw(err)
          /\ UNCHANGED <<modelIdx, attempt, delay, govVars, wakeAt, admits>>
    /\ UNCHANGED <<now, requests, variant, models, maxRetries, attempts, tries, sent,
                   work, runs, voiceVars, pureVars, audioVars, appVars>>

\* The request of fn(model) is rejected with err.
AttemptFails(err) == AttemptFailsWith(err, NoResponse)

\* The rejection of that promise reaches the catch block.
RejectsWithoutKey ==
    /\ keysUsed # <<>>
    /\ keysUsed[Len(keysUsed)] = Null
    /\ AttemptFails(MissingCredentialError)

\* The request of fn(model) is answered with resp and the unit of work
\* runs to its end: it returns, or throws.
ResponseArrives(resp) ==
    LET done == UnitOfWork(work, resp) IN
    IF done.kind = "return" THEN AttemptSucceedsWith(resp) ELSE AttemptFailsWith(done.err, resp)

\* Variant: `continue` does not advance the inner loop counter.
BackoffExpiresNoCount ==
    /\ pc[Fg] = "backoff"
    /\ now >= wakeAt[Fg]
    /\ delay' = delay
    /\ attempt' = attempt
    /\ TryModel(variant, admits)
    /\ UNCHANGED <<now, requests, variant, models, maxRetries, modelIdx, lastError,
                   outcome, attempts, tries, seen, lastSettled, sent, work, runs, response,
                   voiceVars, pureVars, audioVars, appVars>>

\* The backoff timer fires: delay is multiplied and `continue` re-tests the
\* inner loop's condition, which starts the next attempt on the same model.
BackoffExpires ==
    /\ pc[Fg] = "backoff"
    /\ now >= wakeAt[Fg]
    /\ IF attempt + 1 < maxRetries
       THEN /\ delay' = NextDelay(variant, delay)
            /\ attempt' = attempt + 1
            /\ TryModel(variant, admits)
            /\ UNCHANGED <<modelIdx, outcome>>
       ELSE NextModel
    /\ UNCHANGED <<now, requests, variant, models, maxRetries, lastError,
                   attempts, tries, seen, lastSettled, sent, work, runs, response, voiceVars, pureVars, audioVars, appVars>>

(***************************************************************************)
(* Voice synthesis: generateTeacherVoice sends its request directly, or,   *)
(* in the variant of src/types.ts:546-561, inside callWithRetry.           *)
(***************************************************************************)
VoiceModel == "gemini-2.5-flash-preview-tts"
VoiceMaxRetries == 4
RetryDelay == 1500
MaxVoiceCalls == 3       \* calls of generateTeacherVoice made one after another
MaxTurns == 4            \* the largest maxRetries argument given to callWithRetry

\* The error callWithRetry throws after its loop, and the error the catch
\* block of the direct generateTeacherVoice throws.
ServerBusyError == [status |-> 0, body |-> {"<ServerBusy>"}]
VoiceSynthesisError == [status |-> 0, body |-> {"<VoiceSynthesis>"}]

\* The retry test of callWithRetry: status 429 or a text holding 'quota'.
IsQuota(err) == err.status = 429 \/ Includes(err, "quota")

\* delay *= 2.5
TimesTwoAndHalf(d) == Lowest(d.n * 5, d.d * 2)
\* The time setTimeout waits for a delay: whole milliseconds.
TimerMs(d) == d.n \div d.d

\* generateTeacherVoice(text) of variant v is called and sends its request:
\* directly ("rl", "svc") or as the first turn of callWithRetry ("retry")
\* called with maxRetries = mr, whose loop makes no turn when mr is 0.
StartVoiceWith(v, mr) ==
    /\ voice \in {"idle", "resolved", "rejected"}
    /\ voiceCalls < MaxVoiceCalls
    /\ voiceCalls' = voiceCalls + 1
    /\ voiceVariant' = v
    /\ voiceMaxRetries' = mr
    /\ voiceDelay' = Num(RetryDelay, 1)
    /\ voiceAttempt' = 0
    /\ voiceError' = None
    /\ IF v = "retry" /\ mr < 1
       THEN /\ voice' = "rejected"
            /\ voiceThrown' = ServerBusyError
            /\ UNCHANGED <<voiceModel, voiceRequests, sent>>
       ELSE /\ voice' = "inflight"
            /\ voiceThrown' = None
            /\ voiceModel' = VoiceModel
            /\ voiceRequests' = voiceRequests + 1
            /\ sent' = sent + 1
    /\ UNCHANGED <<now, govVars, pc, wakeAt, requests, variant, models, maxRetries,
                   modelIdx, attempt, delay, lastError, outcome, attempts, tries, seen,
                   lastSettled, admits, work, runs, response, voiceWakeAt, pureVars,
                   audioVars, appVars>>

\* generateTeacherVoice as the source calls it: maxRetries has its default.
StartVoice(v) == StartVoiceWith(v, VoiceMaxRetries)

\* A callWithRetry that waits and continues on every quota error.
VoiceSettlesRetriesLast(err) ==
    /\ voice = "inflight"
    /\ voiceError' = IF err = Ok THEN None ELSE err
    /\ IF err = Ok
       THEN voice' = "resolved" /\ UNCHANGED <<voiceWakeAt, voiceThrown>>
       ELSE IF voiceVariant = "retry" /\ IsQuota(err)
            THEN /\ voice' = "backoff"
                 /\ voiceWakeAt' = now + TimerMs(voiceDelay)
                 /\ UNCHANGED voiceThrown
            ELSE /\ voice' = "rejected"
                 /\ voiceThrown' = IF voiceVariant = "retry" THEN err
                                    ELSE VoiceSynthesisError
                 /\ UNCHANGED voiceWakeAt
    /\ UNCHANGED <<now, govVars, pc, wakeAt, requests, runVars, voiceRequests,
                   voiceVariant, voiceAttempt, voiceModel, voiceCalls, voiceMaxRetries,
                   voiceDelay, pureVars, audioVars, appVars>>

\* The request settles, with Ok or with an error.  The direct variants
\* throw an error of their own for any error; callWithRetry sets a timer
\* on a quota error while turns are left and rethrows any other error.
VoiceSettles(err) ==
    /\ voice = "inflight"
    /\ voiceError' = IF err = Ok THEN None ELSE err
    /\ IF err = Ok
       THEN voice' = "resolved" /\ UNCHANGED <<voiceWakeAt, voiceThrown>>
       ELSE IF voiceVariant = "retry" /\ IsQuota(err)
               /\ voiceAttempt < voiceMaxRetries - 1
            THEN /\ voice' = "backoff"
                 /\ voiceWakeAt' = now + TimerMs(voiceDelay)
                 /\ UNCHANGED voiceThrown
            ELSE /\ voice' = "rejected"
                 /\ voiceThrown' = IF voiceVariant = "retry" THEN err
                                    ELSE VoiceSynthesisError
                 /\ UNCHANGED voiceWakeAt
    /\ UNCHANGED <<now, govVars, pc, wakeAt, requests, runVars, voiceRequests,
                   voiceVariant, voiceAttempt, voiceModel, voiceCalls, voiceMaxRetries,
                   voiceDelay, pureVars, audioVars, appVars>>

\* The timer of callWithRetry has fired: delay is multiplied, and the next
\* turn of the loop calls fn, or the loop is over and the error that
\* follows it is thrown.
VoiceRetries ==
    /\ voice = "backoff"
    /\ now >= voiceWakeAt
    /\ voiceDelay' = TimesTwoAndHalf(voiceDelay)
    /\ voiceAttempt' = voiceAttempt + 1
    /\ IF voiceAttempt + 1 < voiceMaxRetries
       THEN /\ voice' = "inflight"
            /\ voiceModel' = VoiceModel
            /\ voiceRequests' = voiceRequests + 1
            /\ sent' = sent + 1
            /\ UNCHANGED voiceThrown
       ELSE /\ voice' = "rejected"
            /\ voiceThrown' = ServerBusyError
            /\ UNCHANGED <<voiceModel, voiceRequests, sent>>
    /\ UNCHANGED <<now, govVars, pc, wakeAt, requests, variant, models, maxRetries,
                   modelIdx, attempt, delay, lastError, outcome, attempts, tries, seen,
                   lastSettled, admits, work, runs, response, voiceVariant, voiceError,
                   voiceCalls, voiceMaxRetries, voiceWakeAt, pureVars, audioVars, appVars>>

\* The clock reaches the due time of the timer of callWithRetry.
VoiceTimerDue ==
    /\ voice = "backoff"
    /\ voiceWakeAt > now
    /\ now' = voiceWakeAt
    /\ UNCHANGED <<govVars, pc, wakeAt, requests, runVars, voiceVars, pureVars, audioVars,
                   appVars>>

(***************************************************************************)
(* The App component: its handlers, each up to its await, and the          *)
(* continuations that run when the awaited service call settles.  A hook   *)
(* holds "null" or "some" value.                                           *)
(***************************************************************************)
MaxInFlight == 2         \* handlers suspended at an await at the same time

\* The frame shared by the handlers of the App.
ServiceVars == <<now, govVars, pc, wakeAt, requests, runVars, voiceVars, pureVars, audioVars>>

Without(seq, k) == [j \in 1..(Len(seq) - 1) |-> IF j < k THEN seq[j] ELSE seq[j + 1]]

\* The Settings button of the header and of the error view.
OpenSettings ==
    /\ ~showSettings
    /\ showSettings' = TRUE
    /\ UNCHANGED <<ServiceVars, mediaVars, status, presentation, result, errorMessage, recordedBlob,
                   lastAlert, inflight>>

\* The close button and the backdrop of the Settings dialog.
CloseSettings ==
    /\ showSettings
    /\ showSettings' = FALSE
    /\ UNCHANGED <<ServiceVars, mediaVars, status, presentation, result, errorMessage, recordedBlob,
                   lastAlert, inflight>>

\* A handleGenerate that sends the script request first.
handleGenerateScriptFirst ==
    /\ ~showSettings
    /\ status = "IDLE"
    /\ Len(inflight) < MaxInFlight
    /\ status' = "GENERATING"
    /\ errorMessage' = "null"
    /\ inflight' = Append(inflight, [op |-> "script", stale |-> FALSE])
    /\ UNCHANGED <<ServiceVars, mediaVars, presentation, result, showSettings, recordedBlob,
                   lastAlert>>

\* handleGenerate, with a theme chosen, up to await generateIllustration.
handleGenerate ==
    /\ ~showSettings
    /\ status = "IDLE"
    /\ Len(inflight) < MaxInFlight
    /\ status' = "GENERATING"
    /\ errorMessage' = "null"
    /\ inflight' = Append(inflight, [op |-> "illustration", stale |-> FALSE])
    /\ UNCHANGED <<ServiceVars, mediaVars, presentation, result, showSettings, recordedBlob, lastAlert>>

\* The catch block of handleGenerate and of handleSubmitEvaluation.
CatchError(k) ==
    /\ errorMessage' = "some"
    /\ status' = "ERROR"
    /\ inflight' = Without(inflight, k)
    /\ UNCHANGED <<presentation, result>>

\* generateIllustration settles: handleGenerate goes on to await
\* generatePresentationScript, or to its catch block.
IllustrationSettles(k, ok) ==
    /\ k \in DOMAIN inflight
    /\ inflight[k].op = "illustration"
    /\ IF ok
       THEN /\ inflight' = [inflight EXCEPT ![k].op = "script"]
            /\ UNCHANGED <<status, presentation, result, errorMessage>>
       ELSE CatchError(k)
    /\ UNCHANGED <<ServiceVars, mediaVars, showSettings, recordedBlob, lastAlert>>

\* generatePresentationScript settles: the rest of handleGenerate, whose
\* last statement calls generateAudioForDownload, which runs up to its
\* await generateTeacherVoice.
ScriptSettles(k, ok) ==
    /\ k \in DOMAIN inflight
    /\ inflight[k].op = "script"
    /\ IF ok
       THEN /\ presentation' = "some"
            /\ status' = "READY"
            /\ inflight' = [inflight EXCEPT ![k].op = "preload"]
            /\ UNCHANGED <<result, errorMessage>>
       ELSE CatchError(k)
    /\ UNCHANGED <<ServiceVars, mediaVars, showSettings, recordedBlob, lastAlert>>

\* A preload whose failure is handled as handleGenerate handles its own.
PreloadSettlesRaisesError(k, ok) ==
    /\ k \in DOMAIN inflight
    /\ inflight[k].op = "preload"
    /\ preloadFailed' = ~ok
    /\ IF ok
       THEN /\ teacherAudioUrl' = "some"
            /\ inflight' = Without(inflight, k)
            /\ UNCHANGED <<status, presentation, result, errorMessage>>
       ELSE /\ CatchError(k)
            /\ UNCHANGED teacherAudioUrl
    /\ UNCHANGED <<ServiceVars, isAudioLoading, showSettings, recordedBlob, lastAlert>>

\* generateTeacherVoice settles in generateAudioForDownload: the WAV file is
\* built and teacherAudioUrl set, or the catch block logs the error.
PreloadSettles(k, ok) ==
    /\ k \in DOMAIN inflight
    /\ inflight[k].op = "preload"
    /\ preloadFailed' = ~ok
    /\ teacherAudioUrl' = IF ok THEN "some" ELSE teacherAudioUrl
    /\ inflight' = Without(inflight, k)
    /\ UNCHANGED <<ServiceVars, status, presentation, result, errorMessage, showSettings,
                   recordedBlob, lastAlert, isAudioLoading>>

\* A playVoice without its first line.
playVoiceUnguarded ==
    /\ ~showSettings
    /\ status \in {"READY", "RECORDING", "REVIEWING"}
    /\ presentation # "null"
    /\ Len(inflight) < MaxInFlight
    /\ isAudioLoading' = TRUE
    /\ inflight' = Append(inflight, [op |-> "voice", stale |-> FALSE])
    /\ UNCHANGED <<ServiceVars, status, presentation, result, errorMessage, showSettings,
                   recordedBlob, lastAlert, teacherAudioUrl, preloadFailed>>

\* playVoice, the play button of the script and of a vocabulary word, up to
\* await generateTeacherVoice: a call made while isAudioLoading returns at
\* its first line.
playVoice ==
    /\ ~showSettings
    /\ status \in {"READY", "RECORDING", "REVIEWING"}
    /\ presentation # "null"
    /\ Len(inflight) < MaxInFlight
    /\ IF isAudioLoading
       THEN UNCHANGED <<isAudioLoading, inflight>>
       ELSE /\ isAudioLoading' = TRUE
            /\ inflight' = Append(inflight, [op |-> "voice", stale |-> FALSE])
    /\ UNCHANGED <<ServiceVars, status, presentation, result, errorMessage, showSettings,
                   recordedBlob, lastAlert, teacherAudioUrl, preloadFailed>>

\* generateTeacherVoice settles in playVoice: the audio starts or the catch
\* block logs the error, and the finally block runs.
PlaybackSettles(k, ok) ==
    /\ k \in DOMAIN inflight
    /\ inflight[k].op = "voice"
    /\ isAudioLoading' = FALSE
    /\ inflight' = Without(inflight, k)
    /\ UNCHANGED <<ServiceVars, status, presentation, result, errorMessage, showSettings,
                   recordedBlob, lastAlert, teacherAudioUrl, preloadFailed>>

\* startRecording: the microphone is granted or refused.
startRecording(granted) ==
    /\ ~showSettings
    /\ status \in {"READY", "REVIEWING"}
    /\ presentation # "null"
    /\ recordedBlob' = "null"
    /\ IF granted
       THEN status' = "RECORDING" /\ UNCHANGED lastAlert
       ELSE status' = "READY" /\ lastAlert' = "Microphone"
    /\ UNCHANGED <<ServiceVars, mediaVars, presentation, result, errorMessage, showSettings, inflight>>

\* stopRecording, and the recorder's onstop: no data, or a blob, which is
\* shorter than 1000 bytes or not.
stopRecording(blob) ==
    /\ ~showSettings
    /\ status = "RECORDING"
    /\ IF blob = "empty"
       THEN status' = "READY" /\ lastAlert' = "NoAudio" /\ UNCHANGED recordedBlob
       ELSE status' = "REVIEWING" /\ recordedBlob' = blob /\ UNCHANGED lastAlert
    /\ UNCHANGED <<ServiceVars, mediaVars, presentation, result, errorMessage, showSettings, inflight>>

\* handleSubmitEvaluation up to await evaluatePresentation.
handleSubmitEvaluation ==
    /\ ~showSettings
    /\ status = "REVIEWING"
    /\ presentation # "null"
    /\ Len(inflight) < MaxInFlight
    /\ IF recordedBlob # "ok"
       THEN /\ lastAlert' = "TooShort"
            /\ UNCHANGED <<status, inflight>>
       ELSE /\ status' = "EVALUATING"
            /\ inflight' = Append(inflight, [op |-> "evaluation", stale |-> FALSE])
            /\ UNCHANGED lastAlert
    /\ UNCHANGED <<ServiceVars, mediaVars, presentation, result, errorMessage, showSettings, recordedBlob>>

\* evaluatePresentation settles: the rest of handleSubmitEvaluation.
EvaluationSettles(k, ok) ==
    /\ k \in DOMAIN inflight
    /\ inflight[k].op = "evaluation"
    /\ IF ok
       THEN /\ result' = "some"
            /\ status' = "RESULT"
            /\ inflight' = Without(inflight, k)
            /\ UNCHANGED <<presentation, errorMessage>>
       ELSE CatchError(k)
    /\ UNCHANGED <<ServiceVars, mediaVars, showSettings, recordedBlob, lastAlert>>

\* reset, the logo of the header and the buttons of the error and result
\* views.  The handlers in flight are marked: a reset came after they began.
reset ==
    /\ ~showSettings
    /\ presentation' = "null"
    /\ result' = "null"
    /\ status' = "IDLE"
    /\ recordedBlob' = "null"
    /\ inflight' = [k \in DOMAIN inflight |-> [inflight[k] EXCEPT !.stale = TRUE]]
    /\ teacherAudioUrl' = "null"
    /\ UNCHANGED <<ServiceVars, errorMessage, showSettings, lastAlert, isAudioLoading,
                   preloadFailed>>

\* The retry button of the error view, shown when there is a presentation.
RetryFromError ==
    /\ ~showSettings
    /\ status = "ERROR"
    /\ errorMessage # "null"
    /\ presentation # "null"
    /\ errorMessage' = "null"
    /\ status' = "READY"
    /\ UNCHANGED <<ServiceVars, mediaVars, presentation, result, showSettings, recordedBlob, lastAlert,
                   inflight>>

\* The button of the result view that goes back to the practice view.
PracticeAgain ==
    /\ ~showSettings
    /\ status = "RESULT"
    /\ result # "null"
    /\ status' = "READY"
    /\ UNCHANGED <<ServiceVars, mediaVars, presentation, result, errorMessage, showSettings,
                   recordedBlob, lastAlert, inflight>>

(***************************************************************************)
(* Bare callers of waitForRateLimit, interleaved at its suspension point.  *)
(***************************************************************************)
CallerRequests(p) ==
    /\ pc[p] = "idle"
    /\ requests < MaxRequests
    /\ requests' = requests + 1
    /\ GovEnter(p)
    /\ UNCHANGED <<now, runVars, voiceVars, pureVars, audioVars, appVars>>

CallerAdmitted(p) ==
    /\ GovResume(p)
    /\ UNCHANGED <<now, requests, runVars, voiceVars, pureVars, audioVars, appVars>>

CallerLeaves(p) ==
    /\ pc[p] = "invoke"
    /\ pc' = [pc EXCEPT ![p] = "idle"]
    /\ UNCHANGED <<now, govVars, wakeAt, requests, runVars, voiceVars, pureVars, audioVars, appVars>>

(***************************************************************************)
(* The clock.                                                              *)
(***************************************************************************)
TickSteps == {20000, 60001}

Elapse(d) ==
    /\ now + d <= MaxTime
    /\ now' = now + d
    /\ UNCHANGED <<govVars, pc, wakeAt, requests, runVars, voiceVars, pureVars, audioVars, appVars>>

\* Time passes while the run's request is in flight.
RequestLatencies == {60001}

RequestTakes(d) ==
    /\ pc[Fg] = "call"
    /\ Elapse(d)

\* The clock reaches the due time of task p's timer.
TimerDue(p) ==
    /\ pc[p] \in {"rlwait", "backoff"}
    /\ wakeAt[p] > now
    /\ now' = wakeAt[p]
    /\ UNCHANGED <<govVars, pc, wakeAt, requests, runVars, voiceVars, pureVars, audioVars, appVars>>

(***************************************************************************)
(* Specifications.                                                         *)
(***************************************************************************)
\* The stored key the runs start with.
StoredKey == Str(<<"a">>)

InitGov ==
    /\ requestTimestamps = <<>>
    /\ admitLog = <<>>
    /\ requests = 0

InitRun ==
    /\ now = 0
    /\ pc = [p \in Tasks |-> "idle"]
    /\ wakeAt = [p \in Tasks |-> 0]
    /\ variant = "none"
    /\ models = <<>>
    /\ maxRetries = 0
    /\ modelIdx = 0
    /\ attempt = 0
    /\ delay = 0
    /\ lastError = None
    /\ outcome = NoOutcome
    /\ attempts = 0
    /\ tries = <<>>
    /\ seen = <<>>
    /\ lastSettled = None
    /\ admits = 0
    /\ sent = 0
    /\ work = "none"
    /\ response = NoResponse
    /\ runs = 0
    /\ voice = "idle"
    /\ voiceRequests = 0
    /\ voiceVariant = "none"
    /\ voiceAttempt = 0
    /\ voiceError = None
    /\ voiceModel = ""
    /\ voiceCalls = 0
    /\ voiceMaxRetries = 0
    /\ voiceDelay = Num(0, 1)
    /\ voiceWakeAt = 0
    /\ voiceThrown = None
    /\ apiKeyResult = NoCall
    /\ keysUsed = <<>>
    /\ evalResult = <<>>
    /\ status = "IDLE"
    /\ presentation = "null"
    /\ result = "null"
    /\ errorMessage = "null"
    /\ showSettings = FALSE
    /\ recordedBlob = "null"
    /\ lastAlert = "none"
    /\ inflight = <<>>
    /\ isAudioLoading = FALSE
    /\ teacherAudioUrl = "null"
    /\ preloadFailed = FALSE

\* No buffer of audio has been handed to decodeAudioData.
InitNoAudio ==
    /\ data = <<>>
    /\ numChannels = 1
    /\ buffer = NoBuffer

Init ==
    /\ InitGov
    /\ InitRun
    /\ InitNoAudio
    /\ localStorage = StoredKey
    /\ env = [API_KEY |-> Null, GEMINI_API_KEY |-> Null]
    /\ raw = <<>>

\* One run of callWithModelFallback, for any chain and any maxRetries.
Next ==
    \/ \E v \in {"rl", "svc"}, ms \in ChainInputs, mr \in 1..MaxRetriesArg :
            runs = 0 /\ StartRun("direct", v, ms, mr)
    \/ RunAdmitted
    \/ Invoke
    \/ AttemptSucceeds
    \/ \E err \in ProviderErrors : AttemptFails(err)
    \/ BackoffExpires
    \/ \E d \in RequestLatencies : RequestTakes(d)
    \/ TimerDue(Fg)

Spec == Init /\ [][Next]_vars

\* Errors that pass more than one test of the catch block, with plain ones.
MixedErrors ==
    { [status |-> 429, body |-> {"not_found"}],
      [status |-> 404, body |-> {"quota"}],
      [status |-> 503, body |-> {"not_found"}],
      [status |-> 429, body |-> {}],
      [status |-> 503, body |-> {}] }

\* One run of the rate-limited callWithModelFallback under such errors.
NextMixed ==
    \/ \E ms \in ChainInputs, mr \in 1..MaxRetriesArg :
            runs = 0 /\ StartRun("direct", "rl", ms, mr)
    \/ RunAdmitted
    \/ Invoke
    \/ AttemptSucceeds
    \/ \E err \in MixedErrors : AttemptFails(err)
    \/ BackoffExpires
    \/ \E d \in RequestLatencies : RequestTakes(d)
    \/ TimerDue(Fg)

SpecMixed == Init /\ [][NextMixed]_vars

\* The session as in InitCred, but with no usable key in the local store
\* or in the environment.
BlankKeys == {Null, Str(<<>>), Str(<<" ">>)}

InitNoKey ==
    /\ requestTimestamps = [i \in 1..(MAX_RPM - 1) |-> 0]
    /\ admitLog = requestTimestamps
    /\ requests = MAX_RPM - 1
    /\ InitRun
    /\ InitNoAudio
    /\ localStorage \in BlankKeys
    /\ env \in [API_KEY : BlankKeys, GEMINI_API_KEY : BlankKeys]
    /\ raw = <<>>

\* One run of the rate-limited callWithModelFallback with no key.
NextNoKey ==
    \/ \E ms \in ChainInputs, mr \in 1..MaxRetriesArg :
            runs = 0 /\ StartRun("direct", "rl", ms, mr)
    \/ RunAdmitted
    \/ InvokeWithoutKey
    \/ RejectsWithoutKey
    \/ TimerDue(Fg)

SpecNoKey == InitNoKey /\ [][NextNoKey]_vars

\* The consumer-facing operations of the service module of src/types.ts:
\* runs started one after another by the call sites, with their own
\* arguments, and voice synthesis.
ModelTypeOf(w) == IF w = "illustration" THEN "image" ELSE "text"

StartWork(w, v) ==
    /\ runs < MaxRuns
    /\ StartRun(w, v, ModelsFor(v, ModelTypeOf(w)), DefaultMaxRetries(v))

\* The failures the remote service answers with here: by status alone.
WorkErrors == {e \in ProviderErrors : e.body = {} /\ e.status # 400}

NextWork ==
    \/ \E w \in {"illustration", "script", "evaluation"} : StartWork(w, "rl")
    \/ RunAdmitted
    \/ Invoke
    \/ AttemptSucceeds
    \/ \E err \in WorkErrors : AttemptFails(err)
    \/ BackoffExpires
    \/ voice = "idle" /\ StartVoice("rl")
    \/ \E err \in {Ok} \cup WorkErrors : VoiceSettles(err)
    \/ TimerDue(Fg)

SpecWork == Init /\ [][NextWork]_vars

\* Voice synthesis in its three variants, called again and again.
NextVoice ==
    \/ \E v \in {"rl", "svc", "retry"} : StartVoice(v)
    \/ \E err \in {Ok} \cup WorkErrors : VoiceSettles(err)
    \/ VoiceRetries
    \/ VoiceTimerDue

SpecVoice == Init /\ [][NextVoice]_vars

\* Errors fn can reject with in callWithRetry: with and without status
\* 429, with and without 'quota' in their text.
RetryErrors ==
    { [status |-> 429, body |-> {}],
      [status |-> 0,   body |-> {"quota"}],
      [status |-> 503, body |-> {}],
      [status |-> 0,   body |-> {}] }

\* callWithRetry around the voice request, for any maxRetries.
NextRetry ==
    \/ \E mr \in 0..MaxTurns : StartVoiceWith("retry", mr)
    \/ \E err \in {Ok} \cup RetryErrors : VoiceSettles(err)
    \/ VoiceRetries
    \/ VoiceTimerDue

SpecRetry == Init /\ [][NextRetry]_vars

\* The same operations with the responses of their requests: each request
\* is rejected by the service or answered, well or badly.
ResponsesFor(w) ==
    IF w = "illustration" THEN {r \in Responses : r.text = "missing"}
    ELSE {r \in Responses : ~r.inlineData}

NextResp ==
    \/ \E w \in {"illustration", "script", "evaluation"} : StartWork(w, "rl")
    \/ RunAdmitted
    \/ Invoke
    \/ \E resp \in ResponsesFor(work) : ResponseArrives(resp)
    \/ \E err \in WorkErrors : AttemptFails(err)
    \/ BackoffExpires
    \/ TimerDue(Fg)

SpecResp == Init /\ [][NextResp]_vars

\* The event loop runs every ready continuation, every timer fires and
\* every request settles.
SpecLive == Spec /\ WF_vars(Next)

\* The governor alone, under concurrent callers.
NextGov ==
    \/ \E p \in Callers : CallerRequests(p)
    \/ \E p \in Callers : CallerAdmitted(p)
    \/ \E p \in Callers : CallerLeaves(p)
    \/ \E d \in TickSteps : Elapse(d)
    \/ \E p \in Callers : TimerDue(p)

SpecGov == Init /\ [][NextGov]_vars

\* The governor under the event loop: a pending timer comes due and its
\* continuation runs.
SpecGovLive ==
    /\ SpecGov
    /\ \A p \in Callers : WF_vars(TimerDue(p)) /\ WF_vars(CallerAdmitted(p))

\* getApiKey as a function of the local store and of the environment.
InitKey ==
    /\ InitGov
    /\ InitRun
    /\ InitNoAudio
    /\ localStorage \in KeyValues
    /\ env \in [API_KEY : KeyValues, GEMINI_API_KEY : KeyValues]
    /\ raw = <<>>

NextKey == \E v \in {"rl", "svc"} : CallGetApiKey(v)

SpecKey == InitKey /\ [][NextKey]_vars

\* What the user types in the Settings field before saving.
SettingsInputs == {Str(<<"a", "a">>), Str(<<" ", "a", " ">>), Str(<<" ">>)}

\* The session as bare callers leave it, all admitted at this instant, one
\* short of the cap.
InitCred ==
    /\ requestTimestamps = [i \in 1..(MAX_RPM - 1) |-> 0]
    /\ admitLog = requestTimestamps
    /\ requests = MAX_RPM - 1
    /\ InitRun
    /\ InitNoAudio
    /\ localStorage = StoredKey
    /\ env = [API_KEY |-> Null, GEMINI_API_KEY |-> Null]
    /\ raw = <<>>

\* One run of the rate-limited callWithModelFallback over its own chain
\* while the user saves keys in Settings.
NextCred ==
    \/ \E mr \in 1..MaxRetriesArg :
            runs = 0 /\ StartRun("direct", "rl", ModelsFor("rl", "text"), mr)
    \/ RunAdmitted
    \/ Invoke
    \/ AttemptSucceeds
    \/ \E err \in WorkErrors : AttemptFails(err)
    \/ BackoffExpires
    \/ TimerDue(Fg)
    \/ OpenSettings
    \/ \E apiKey \in SettingsInputs : saveSettings(apiKey)

SpecCred == InitCred /\ [][NextCred]_vars

\* The App under the user's clicks, the service calls settling either way.
NextApp ==
    \/ OpenSettings
    \/ CloseSettings
    \/ \E apiKey \in SettingsInputs : saveSettings(apiKey)
    \/ handleGenerate
    \/ \E k \in 1..MaxInFlight, ok \in BOOLEAN : IllustrationSettles(k, ok)
    \/ \E k \in 1..MaxInFlight, ok \in BOOLEAN : ScriptSettles(k, ok)
    \/ \E k \in 1..MaxInFlight, ok \in BOOLEAN : PreloadSettles(k, ok)
    \/ playVoice
    \/ \E k \in 1..MaxInFlight, ok \in BOOLEAN : PlaybackSettles(k, ok)
    \/ \E granted \in BOOLEAN : startRecording(granted)
    \/ \E blob \in {"empty", "short", "ok"} : stopRecording(blob)
    \/ handleSubmitEvaluation
    \/ \E k \in 1..MaxInFlight, ok \in BOOLEAN : EvaluationSettles(k, ok)
    \/ reset
    \/ RetryFromError
    \/ PracticeAgain

SpecApp == Init /\ [][NextApp]_vars

\* The requests of handleGenerate settle: the promise of a service call is
\* resolved or rejected in the end.
GenerationSettles ==
    \E k \in 1..MaxInFlight, ok \in BOOLEAN :
        IllustrationSettles(k, ok) \/ ScriptSettles(k, ok)

SpecAppLive == SpecApp /\ WF_vars(GenerationSettles)

\* The normalizer as a function of the parsed response.
InitEval ==
    /\ InitGov
    /\ InitRun
    /\ InitNoAudio
    /\ localStorage = StoredKey
    /\ env = [API_KEY |-> Null, GEMINI_API_KEY |-> Null]
    /\ raw \in {[f \in Fields \cup {"score"} |-> IF f = "score" THEN sc ELSE sub[f]] :
                    sub \in [Fields -> RawScores], sc \in {Undefined, Num(12, 1)}}

NextEval == Evaluate

SpecEval == InitEval /\ [][NextEval]_vars

\* decodeAudioData as a function of the bytes and of the channel count:
\* buffers of whole frames of 16-bit samples.
InitAudio ==
    /\ InitGov
    /\ InitRun
    /\ localStorage = StoredKey
    /\ env = [API_KEY |-> Null, GEMINI_API_KEY |-> Null]
    /\ raw = <<>>
    /\ numChannels \in 1..MaxChannels
    /\ \E frames \in 0..MaxFrames : data \in PcmBuffers(frames * numChannels)
    /\ buffer = NoBuffer

NextAudio == DecodeAudio

SpecAudio == InitAudio /\ [][NextAudio]_vars

\* The normalizer over any value a field of the parsed response can hold,
\* and those its own arithmetic hands it.
AnyScores == {Undefined, NullValue, NaN, NonNumeric, EmptyString, Num(745, 100)}

InitEvalAny ==
    /\ InitGov
    /\ InitRun
    /\ InitNoAudio
    /\ localStorage = StoredKey
    /\ env = [API_KEY |-> Null, GEMINI_API_KEY |-> Null]
    /\ raw \in {[f \in Fields \cup {"score"} |-> IF f = "score" THEN Undefined ELSE sub[f]] :
                    sub \in [Fields -> AnyScores]}

SpecEvalAny == InitEvalAny /\ [][NextEval]_vars

(***************************************************************************)
(* Properties.                                                             *)
(***************************************************************************)
Finished == pc[Fg] \in {"returned", "thrown"}
Settles == pc[Fg] = "call" /\ pc'[Fg] # "call"
Recent(t) == {i \in DOMAIN admitLog : admitLog[i] > t - 60000}

\* C1: as soon as an attempt succeeds the run returns that attempt's result;
\* afterwards no attempt is made, on this model or on a later one.
C1_ReturnsOnFirstSuccess ==
    [][ /\ lastSettled' = Ok =>
            /\ pc'[Fg] = "returned"
            /\ outcome' = [kind |-> "value", err |-> None, model |-> models'[modelIdx']]
            /\ \A j \in (modelIdx' + 1)..Len(models') : tries'[j] = 0
        /\ lastSettled = Ok => (attempts' = attempts /\ tries' = tries /\ outcome' = outcome)
      ]_vars

C1_Witness ==
    /\ pc[Fg] = "returned"
    /\ lastSettled = Ok
    /\ modelIdx = 2
    /\ Len(models) = 3
    /\ tries[1] = 2

\* C2: in the rate-limited variant an attempt that fails not-found (status
\* 404 or the not_found marker) is followed by no backoff and by no further
\* attempt on that model: the next model is tried, or the run ends when there
\* is none.  For a chain [A, B] where A only fails not-found and B succeeds,
\* the run returns B's result after one attempt on A.
C2_NotFoundSkipsModel ==
    [][ /\ ( /\ variant = "rl"
             /\ Settles
             /\ (lastSettled'.status = 404 \/ "not_found" \in lastSettled'.body) )
           => /\ pc'[Fg] # "backoff"
              /\ delay' = BaseDelay(variant) \/ pc'[Fg] = "thrown"
              /\ IF modelIdx < Len(models)
                 THEN modelIdx' = modelIdx + 1 /\ pc'[Fg] \in {"invoke", "rlwait"}
                 ELSE pc'[Fg] = "thrown"
        /\ \A i \in DOMAIN tries : (runs' = runs /\ i # modelIdx') => tries'[i] = tries[i]
        /\ runs' = runs => modelIdx' >= modelIdx
        /\ ( /\ variant' = "rl"
             /\ pc'[Fg] = "returned"
             /\ Len(models') = 2
             /\ seen'[1] = {"not_found"}
             /\ seen'[2] = {"ok"} )
           => (tries' = <<1, 1>> /\ outcome'.model = models'[2])
      ]_vars

C2_Witness ==
    /\ variant = "rl"
    /\ pc[Fg] = "returned"
    /\ Len(models) = 2
    /\ maxRetries = 3
    /\ seen = <<{"not_found"}, {"ok"}>>
    /\ lastError = [status |-> 429, body |-> {"not_found"}]
    /\ tries = <<1, 1>>

\* C3: whenever a run fails, what the caller receives is the synthesized
\* message, never the error thrown by the unit of work.
C3_FailureIsSynthesized == pc[Fg] = "thrown" => outcome.kind = "synth"

\* C4: at every moment the admissions granted within the trailing 60 seconds
\* number at most MAX_RPM, under any interleaving of callers.
C4_WindowNeverExceedsCap == Cardinality(Recent(now)) <= MAX_RPM

\* C5: every run terminates, after at most maxRetries * (chain length)
\* attempts.
C5_Terminates ==
    /\ [](attempts <= maxRetries * Len(models))
    /\ <>Finished

C5_Witness ==
    /\ pc[Fg] = "thrown"
    /\ Len(models) = 3
    /\ maxRetries = MaxRetriesArg
    /\ attempts = maxRetries * Len(models)

\* C6: a run over a single-model chain whose every attempt fails rate-limited
\* makes exactly maxRetries attempts and then fails with the synthesized
\* exhaustion error.
C6_SingleModelExhausts ==
    (pc[Fg] = "thrown" /\ Len(models) = 1 /\ seen[1] = {"rate_limit"})
        => (attempts = maxRetries /\ outcome.kind = "synth")

\* C7: in the rate-limited variant a model that only failed rate-limited or
\* transient-server is left for the next one after exactly maxRetries
\* attempts; for [model1 always 429, model2 succeeds] and maxRetries = 2 the
\* run makes 3 attempts, 2 then 1, and returns model2's result.
C7_RetryableModelGetsAllRetries ==
    variant = "rl" =>
        /\ \A i \in 1..(modelIdx - 1) :
              (seen[i] # {} /\ seen[i] \subseteq {"rate_limit", "server"})
                  => tries[i] = maxRetries
        /\ ( /\ pc[Fg] = "returned"
             /\ Len(models) = 2
             /\ maxRetries = 2
             /\ seen[1] = {"rate_limit"}
             /\ seen[2] = {"ok"} )
           => (attempts = 3 /\ tries = <<2, 1>> /\ outcome.model = models[2])

C7_Witness ==
    /\ variant = "rl"
    /\ pc[Fg] = "returned"
    /\ Len(models) = 2
    /\ maxRetries = 2
    /\ seen = <<{"rate_limit"}, {"ok"}>>
    /\ tries = <<2, 1>>
    /\ outcome.model = models[2]

\* C8: in the rate-limited variant every attempt has its own completed call
\* to waitForRateLimit before it: the calls completed for the run number the
\* attempts made, plus one while an admitted attempt is about to start.
C8_OneAdmissionPerAttempt ==
    variant = "rl" =>
        /\ admits = attempts + (IF pc[Fg] = "invoke" THEN 1 ELSE 0)
        /\ Len(admitLog) = admits
        /\ pc[Fg] = "call" => admits = attempts

C8_Witness ==
    /\ variant = "rl"
    /\ pc[Fg] = "call"
    /\ attempt = 1
    /\ modelIdx = 2
    /\ attempts = 4

\* C9: every request sent to the remote service, by illustration, script,
\* voice synthesis or evaluation, has an admission recorded before it.
C9_EveryRequestAdmitted == sent <= Len(admitLog)

\* C10: a call to waitForRateLimit made when MAX_RPM admissions or more lie
\* within the last 60 seconds suspends for a strictly positive time; a call
\* made when every earlier admission is more than 60 seconds old does not
\* suspend.
C10_SuspendsExactlyWhenFull ==
    [][ \A p \in Callers :
          (pc[p] = "idle" /\ pc'[p] # "idle") =>
              /\ Cardinality(Recent(now)) >= MAX_RPM
                    => (pc'[p] = "rlwait" /\ wakeAt'[p] > now)
              /\ (\A i \in DOMAIN admitLog : admitLog[i] < now - 60000)
                    => (pc'[p] = "invoke" /\ admitLog' = Append(admitLog, now))
      ]_vars

C10_Witness ==
    \E p \in Callers :
        /\ pc[p] = "rlwait"
        /\ wakeAt[p] > now
        /\ Cardinality(Recent(now)) >= MAX_RPM
        /\ Len(admitLog) > MAX_RPM
        /\ admitLog[2] > admitLog[1] + 60000

\* C11: waitForRateLimit never fails and every call returns: a caller is
\* only ever idle, suspended or admitted, a suspension lasts a finite time
\* (at most the window plus the buffer), and a suspended caller is
\* eventually resumed and admitted.
C11_EveryCallReturns ==
    /\ [](\A p \in Callers :
            /\ pc[p] \in {"idle", "rlwait", "invoke"}
            /\ pc[p] = "rlwait" => wakeAt[p] <= now + 60000 + 500)
    /\ \A p \in Callers : (pc[p] = "rlwait") ~> (pc[p] = "invoke")

C11_Witness ==
    \E p \in Callers :
        /\ pc[p] = "invoke"
        /\ wakeAt[p] > 0
        /\ admitLog[Len(admitLog)] = now
        /\ now >= wakeAt[p]
        /\ Len(admitLog) > MAX_RPM

Suspended == {p \in Callers : pc[p] = "rlwait"}
Pruned == Len(admitLog) - Len(requestTimestamps)

\* C12: every call to waitForRateLimit that has returned appended exactly
\* one timestamp and a suspended call none yet; the sequence holds every
\* admission's timestamp once, in order, except a prefix removed by pruning,
\* each entry of which is older than 60 seconds.
C12_OneTimestampPerCall ==
    /\ requests = Len(admitLog) + Cardinality(Suspended)
    /\ Pruned >= 0
    /\ requestTimestamps = SubSeq(admitLog, Pruned + 1, Len(admitLog))
    /\ \A i \in 1..Pruned : admitLog[i] < now - 60000

C12_Witness ==
    /\ Pruned > 0
    /\ Len(requestTimestamps) > MAX_RPM
    /\ \E p \in Callers : pc[p] = "invoke" /\ wakeAt[p] > 0 /\ now = wakeAt[p]

\* A value that is a string with a character other than whitespace, and
\* that string without its leading and trailing whitespace.
NonBlank(x) == x.present /\ \E i \in 1..Len(x.text) : x.text[i] # " "
Inner(x) ==
    LET solid == {i \in 1..Len(x.text) : x.text[i] # " "}
        first == CHOOSE i \in solid : \A j \in solid : i <= j
        last == CHOOSE i \in solid : \A j \in solid : i >= j
    IN  Str(SubSeq(x.text, first, last))
Called == apiKeyResult.kind # "none"

\* C13: getApiKey returns the trimmed local-store value whenever it is
\* non-empty after trimming, whatever the environment holds; otherwise it
\* returns the trimmed environment value when that is non-empty.  A returned
\* credential is non-empty and neither starts nor ends with whitespace.
C13_StoreThenEnvironment ==
    Called =>
        /\ NonBlank(localStorage) => apiKeyResult = Returns(Inner(localStorage))
        /\ (~NonBlank(localStorage) /\ NonBlank(EnvKey(variant, env)))
              => apiKeyResult = Returns(Inner(EnvKey(variant, env)))
        /\ apiKeyResult.kind = "return" =>
              LET t == apiKeyResult.value.text IN
              /\ apiKeyResult.value.present
              /\ Len(t) > 0
              /\ t[1] # " "
              /\ t[Len(t)] # " "

C13_Witness ==
    /\ Called
    /\ localStorage = Str(<<" ", " ">>)
    /\ env.API_KEY = Str(<<" ", "a", "a">>)
    /\ apiKeyResult = Returns(Str(<<"a", "a">>))

\* C14: when neither the local store nor the environment holds a string
\* that is non-empty after trimming, getApiKey throws the MissingCredential
\* error and returns no value.
C14_MissingCredential ==
    (Called /\ ~NonBlank(localStorage) /\ ~NonBlank(EnvKey(variant, env)))
        => (apiKeyResult.kind = "throw"
            /\ apiKeyResult.error = "MissingCredential"
            /\ ~apiKeyResult.value.present)

C14_Witness ==
    /\ apiKeyResult = MissingCredential
    /\ localStorage = Str(<<" ">>)
    /\ env.API_KEY = Str(<<>>)
    /\ env.GEMINI_API_KEY = Null

\* C15: every attempt of a run resolves the credential anew: the key an
\* attempt uses is the one stored when that attempt starts, so after a save
\* between two attempts the next attempt uses the new key.
C15_KeyResolvedPerAttempt ==
    [][ /\ attempts' = attempts + 1 => keysUsed' = Append(keysUsed, Inner(localStorage))
        /\ Len(keysUsed') = attempts'
      ]_vars

C15_Witness ==
    /\ pc[Fg] = "call"
    /\ variant = "rl"
    /\ tries[1] = 2
    /\ keysUsed = <<StoredKey, Str(<<"a", "a">>)>>
    /\ localStorage = Str(<<"a", "a">>)

Running == pc[Fg] \in {"invoke", "rlwait", "call", "backoff"}

\* C16: in the rate-limited variant the current delay is 3000 ms on the
\* first attempt on a model and doubles with every retry; a rate-limited
\* failure with retries remaining waits twice the current delay and a
\* transient-server failure with retries remaining waits the current delay,
\* before the next attempt on the same model.
C16_BackoffDelays ==
    [][ variant' = "rl" =>
          /\ Running' => delay' = 3000 * 2 ^ attempt'
          /\ (Settles /\ pc'[Fg] = "backoff") =>
                /\ attempt < maxRetries - 1
                /\ KindOf(lastSettled') \in {"rate_limit", "server"}
                /\ KindOf(lastSettled') = "rate_limit" => wakeAt'[Fg] = now + 2 * delay
                /\ KindOf(lastSettled') = "server" => wakeAt'[Fg] = now + delay
          /\ (pc[Fg] = "backoff" /\ pc'[Fg] # "backoff") =>
                /\ now >= wakeAt[Fg]
                /\ modelIdx' = modelIdx
                /\ attempt' = attempt + 1
                /\ delay' = 2 * delay
      ]_vars

C16_Witness ==
    /\ variant = "rl"
    /\ pc[Fg] = "backoff"
    /\ seen[modelIdx] = {"rate_limit", "server"}
    /\ KindOf(lastSettled) = "server"
    /\ attempt = 1
    /\ delay = 6000
    /\ now = 6000
    /\ wakeAt[Fg] = 12000

\* The failed attempt cannot be retried on its model: its kind is none of
\* the three the catch block names, or the model's retries are used up.
NoRetryLeft ==
    \/ KindOf(lastSettled') = "other"
    \/ KindOf(lastSettled') \in {"rate_limit", "server"} /\ attempt >= maxRetries - 1

\* C17: a failure that is neither not-found, rate-limited nor
\* transient-server, or a rate-limited or transient-server failure with no
\* retry left, is followed by no backoff; on a model that is not the last
\* the next model is tried, on the last model the run fails with the
\* synthesized exhaustion error.
C17_NoRetryRouting ==
    [][ (variant = "rl" /\ Settles /\ lastSettled' # Ok /\ NoRetryLeft) =>
          /\ pc'[Fg] # "backoff"
          /\ IF modelIdx < Len(models)
             THEN modelIdx' = modelIdx + 1 /\ attempt' = 0 /\ pc'[Fg] \in {"invoke", "rlwait"}
             ELSE pc'[Fg] = "thrown" /\ outcome'.kind = "synth"
      ]_vars

\* C18: whenever a run fails, what the caller receives carries both the
\* remediation text and the last underlying error, on every path to the
\* failure.
C18_FailureCarriesLastError ==
    pc[Fg] = "thrown" =>
        /\ outcome.kind = "synth"
        /\ outcome.err = lastError
        /\ lastError # None

Normalized == evalResult # <<>>
InRange(q) == IsNumber(q) /\ q.d > 0 /\ 0 <= q.n /\ q.n <= 10 * q.d
OneDecimal(q) == (10 * q.n) % q.d = 0

\* C19: whatever the response holds for a rubric sub-score (missing,
\* negative, above 10, fractional), the normalized sub-score lies in [0, 10]
\* and has at most one decimal digit.
C19_SubScoresNormalized ==
    Normalized => \A f \in Fields : InRange(evalResult[f]) /\ OneDecimal(evalResult[f])

C19_Witness ==
    /\ Normalized
    /\ raw["pronunciation"] = Undefined
    /\ raw["fluency"] = Num(-50, 100)
    /\ raw["intonation"] = Num(12, 1)
    /\ raw["vocabulary"] = Num(745, 100)
    /\ evalResult["pronunciation"].n = 0
    /\ evalResult["fluency"].n = 0
    /\ evalResult["intonation"] = Num(10, 1)
    /\ evalResult["vocabulary"] = Num(75, 10)

\* A value with at most one decimal digit, counted in tenths.
Tenths(q) == (10 * q.n) \div q.d
SumOfTenths ==
    Tenths(evalResult["pronunciation"]) + Tenths(evalResult["fluency"])
        + Tenths(evalResult["intonation"]) + Tenths(evalResult["vocabulary"])
        + Tenths(evalResult["grammar"]) + Tenths(evalResult["taskFulfillment"])

\* C20: the aggregate score is the arithmetic mean of the six normalized
\* sub-scores rounded to one decimal (a tenth nearest to the mean), within
\* [0, 10]; it does not depend on a score field of the response.
C20_ScoreIsMeanOfNormalized ==
    Normalized =>
        /\ InRange(evalResult["score"])
        /\ OneDecimal(evalResult["score"])
        /\ 6 * Tenths(evalResult["score"]) - SumOfTenths \in -3..3

C20_Witness ==
    /\ Normalized
    /\ raw["score"] = Num(12, 1)
    /\ raw["pronunciation"] = Num(12, 1)
    /\ \A f \in Fields \ {"pronunciation"} : raw[f] = Num(3, 10)
    /\ evalResult["score"] = Num(19, 10)

\* The timestamps are in the order of the clock.
Sorted(ts) == \A i \in 1..(Len(ts) - 1) : ts[i] <= ts[i + 1]
\* Task p makes a check: the synchronous prefix of waitForRateLimit runs.
Checks(p) == pc[p] = "idle" /\ pc'[p] # "idle"

\* C30: requestTimestamps is non-decreasing in every reachable state, under
\* any interleaving of callers of waitForRateLimit, and right after the
\* pruning step of a check no retained timestamp is older than 60 seconds.
C30_TimestampsOrderedAndFresh ==
    /\ []Sorted(requestTimestamps)
    /\ [][\A p \in Callers : Checks(p) =>
             \A i \in DOMAIN requestTimestamps' :
                 requestTimestamps'[i] >= now - 60000]_vars

\* A check has pruned expired entries and kept later ones of different
\* times, and both callers have been admitted.
C30_Witness ==
    /\ Pruned > 0
    /\ Len(requestTimestamps) >= 2
    /\ requestTimestamps[1] < requestTimestamps[Len(requestTimestamps)]
    /\ requestTimestamps[1] >= now - 60000
    /\ \A p \in Callers : pc[p] = "invoke"

\* The step stays within the run in progress.
SameRun == runs' = runs /\ runs > 0

\* C29: the models of the chain are attempted strictly in order: the first
\* attempt of a run is on the first model, an attempt is made on the model
\* the outer loop stands on and on no other, a model is attempted only when
\* every model before it has been attempted and left, the loop never steps
\* back, and a model the loop has left is never attempted again.
C29_ModelsInChainOrder ==
    [][/\ (attempts = 0 /\ attempts' = 1) => (modelIdx = 1 /\ tries'[1] = 1)
       /\ SameRun =>
             /\ modelIdx' >= modelIdx
             /\ \A i \in DOMAIN tries :
                   /\ tries'[i] # tries[i] => i = modelIdx /\ modelIdx' = modelIdx
                   /\ i < modelIdx => tries'[i] = tries[i] /\ tries[i] > 0
                   /\ i > modelIdx => tries[i] = 0]_vars

\* A run reached the third model of its chain after several attempts on the
\* first and one or more on the second, and returned from the third.
C29_Witness ==
    /\ pc[Fg] = "returned"
    /\ Len(models) = 3
    /\ modelIdx = 3
    /\ tries[1] > 1
    /\ tries[2] >= 1
    /\ tries[3] >= 1

\* C21: normalize yields the number 0 for every absent or invalid numeric
\* field: a sub-score whose value in the response is undefined, null, NaN
\* or not a number at all is 0 in the result, and is never NaN.
C21_InvalidFieldsBecomeZero ==
    Normalized =>
        \A f \in Fields : ~IsNumber(raw[f]) => IsNumber(evalResult[f]) /\ evalResult[f].n = 0

Decoded == buffer # NoBuffer
\* The signed 16-bit sample number k of the input, from its two bytes.
OriginalSample(k) ==
    LET lo == data[2 * k + 1]
        hi == data[2 * k + 2]
    IN  IF hi >= 128 THEN lo + 256 * hi - 65536 ELSE lo + 256 * hi
\* Re-encoding a decoded value to 16 bits: times 32768, round, clamp.
Reencode(v) ==
    LET scaled == (2 * 32768 * v.n + v.d) \div (2 * v.d)
    IN  IF scaled > 32767 THEN 32767 ELSE IF scaled < -32768 THEN -32768 ELSE scaled
\* The two bytes of a 16-bit sample, low byte first.
BytesOf(s16) == LET u == (s16 + 65536) % 65536 IN <<u % 256, u \div 256>>
\* The decoded values in the order of the input: frame by frame.
Interleaved(k) == buffer.channelData[k % numChannels][k \div numChannels]

\* C27: for every PCM buffer of even length, each decoded value is the
\* signed 16-bit sample divided by 32768 and lies in [-1, 1], and decoding
\* followed by re-encoding (times 32768, round, clamp to [-32768, 32767])
\* gives back the original samples, byte for byte.
C27_DecodeRoundTrip ==
    Decoded =>
        \A k \in 0..(Len(data) \div 2 - 1) :
            LET v == Interleaved(k) IN
            /\ IsNumber(v)
            /\ v.n * 32768 = OriginalSample(k) * v.d
            /\ -v.d <= v.n /\ v.n <= v.d
            /\ Reencode(v) = OriginalSample(k)
            /\ BytesOf(Reencode(v)) = <<data[2 * k + 1], data[2 * k + 2]>>

\* A buffer holding the lowest and the highest sample has been decoded.
C27_Witness ==
    /\ Decoded
    /\ buffer.length = 2
    /\ numChannels = 1
    /\ OriginalSample(0) = -32768
    /\ OriginalSample(1) = 32767
    /\ buffer.channelData[0][0] = Num(-1, 1)
    /\ buffer.channelData[0][1] = Num(32767, 32768)

\* C28: decodeAudioData gives numChannels arrays of byteLength / 2 /
\* numChannels samples each, sample i of channel c being input sample
\* i * numChannels + c, so that every input sample is at exactly one place
\* of one channel.
C28_Deinterleaves ==
    Decoded =>
        /\ buffer.numberOfChannels = numChannels
        /\ DOMAIN buffer.channelData = 0..(numChannels - 1)
        /\ buffer.length * 2 * numChannels = Len(data)
        /\ \A c \in 0..(numChannels - 1) :
              /\ DOMAIN buffer.channelData[c] = 0..(buffer.length - 1)
              /\ \A i \in 0..(buffer.length - 1) :
                    buffer.channelData[c][i].n * 32768 =
                        OriginalSample(i * numChannels + c) * buffer.channelData[c][i].d
        /\ \A k \in 0..(Len(data) \div 2 - 1) :
              Cardinality({pos \in (0..(numChannels - 1)) \X (0..(buffer.length - 1)) :
                              pos[2] * numChannels + pos[1] = k}) = 1

\* Two frames of two channels have been decoded, the four samples unlike.
C28_Witness ==
    /\ Decoded
    /\ numChannels = 2
    /\ buffer.length = 2
    /\ OriginalSample(0) = 1
    /\ OriginalSample(1) = -1
    /\ OriginalSample(2) = 32767
    /\ OriginalSample(3) = -32768
    /\ buffer.channelData[1][0] = Num(-1, 32768)
    /\ buffer.channelData[0][1] = Num(32767, 32768)

\* The continuation of a handler that a reset has overtaken runs to its end.
LateCompletion ==
    \E k \in DOMAIN inflight :
        /\ inflight[k].stale
        /\ inflight' = Without(inflight, k)
Cleared == status = "IDLE" /\ presentation = "null" /\ result = "null"

\* C25: when the user resets the session while a generation or evaluation
\* request is in flight, the late result is ignored: after the request
\* completes, status is still IDLE and presentation and result are still
\* null.
C25_LateResultIgnored ==
    [][(LateCompletion /\ Cleared) => Cleared']_vars

\* The store is written by this step.
Stores == localStorage' # localStorage
\* This step is a save refused for an empty field.
RefusedSave == lastAlert' = "EmptyKey" /\ lastAlert # "EmptyKey"

\* C26: the item speakpro_api_key of the local store is written only by
\* saveSettings, with the trimmed input and only when that is not empty; a
\* save with an empty or whitespace-only input leaves the stored key,
\* status, errorMessage and the Settings dialog as they were.
C26_StoreWrittenOnlyBySave ==
    [][/\ Stores =>
            /\ showSettings
            /\ \E apiKey \in SettingsInputs :
                    /\ NonBlank(apiKey)
                    /\ localStorage' = Inner(apiKey)
                    /\ lastAlert' = "Saved"
       /\ RefusedSave => UNCHANGED <<localStorage, status, errorMessage, showSettings>>]_vars

\* A key was saved, then a blank save was refused while the error view and
\* the dialog were showing.
C26_Witness ==
    /\ lastAlert = "EmptyKey"
    /\ showSettings
    /\ status = "ERROR"
    /\ errorMessage = "some"
    /\ localStorage = Str(<<"a", "a">>)

\* What the operation resolved with, once its run has returned.
Resolved == UnitOfWork(work, response).value
IsZero(q) == IsNumber(q) /\ q.n = 0
Malformed(resp) == resp.text \in {"missing", "unparsable"}

\* C22: when the structured output of the evaluation response is missing
\* or cannot be parsed, evaluatePresentation does not fail: it resolves with
\* the six sub-scores and the aggregate all 0.
C22_MalformedEvaluationScoresZero ==
    (work = "evaluation" /\ Malformed(response)) =>
        /\ pc[Fg] = "returned"
        /\ \A f \in Fields \cup {"score"} : IsZero(Resolved[f])

\* C23: when the structured output for the script is missing or cannot be
\* parsed, generatePresentationScript does not resolve, and it never
\* resolves with an empty script object; generateIllustration does not
\* resolve on a response that carries no inline image data.
C23_MalformedScriptFails ==
    /\ (work = "script" /\ Malformed(response)) => pc[Fg] # "returned"
    /\ (work = "script" /\ pc[Fg] = "returned") => Resolved = "object"
    /\ (work = "illustration" /\ response # NoResponse /\ ~response.inlineData) =>
            pc[Fg] # "returned"

\* C24: voice synthesis always names one fixed model, never a chain, and
\* has a retry of its own: a synthesis attempt that fails with a rate-limit
\* error is tried again at least once before the failure is reported.
C24_VoiceFixedModelOwnRetry ==
    /\ voiceRequests > 0 => voiceModel = VoiceModel
    /\ (voice = "rejected" /\ voiceError.status = 429) => voiceAttempt >= 1

\* The attempt in flight fails with an error that is not-found and, at the
\* same time, rate-limited or a server error.
FailsMixed ==
    /\ Settles
    /\ lastSettled' # Ok
    /\ IsNotFound(lastSettled')
    /\ IsRateLimit("rl", lastSettled') \/ IsServerError(lastSettled')

\* C31: in the rate-limited callWithModelFallback an error that is both
\* not-found and rate-limited or a server error counts as not-found: the
\* model is left at once, with no retry on it and no backoff wait.
C31_NotFoundWins ==
    [][(variant = "rl" /\ FailsMixed) =>
            /\ pc'[Fg] # "backoff"
            /\ delay' = BaseDelay("rl") \/ pc'[Fg] = "thrown"
            /\ IF modelIdx < Len(models)
               THEN modelIdx' = modelIdx + 1 /\ attempt' = 0 /\ tries'[modelIdx'] = 0
               ELSE pc'[Fg] = "thrown"]_vars

\* With two retries still allowed, the first model failed once with status
\* 404 and 'quota' in its body, and the run stands on the second model.
C31_Witness ==
    /\ variant = "rl"
    /\ maxRetries = 3
    /\ modelIdx = 2
    /\ tries = <<1, 0, 0>>
    /\ lastError = [status |-> 404, body |-> {"quota"}]
    /\ pc[Fg] = "invoke"

\* The run moves on to the next model of its chain.
Advances == SameRun /\ modelIdx' # modelIdx

\* C32: whenever the run moves on to the next model the backoff delay is
\* the base value again, and the move itself waits for nothing: it is made
\* by the step in which the attempt failed, and until the first attempt on
\* the new model the run can be suspended in the rate governor only, never
\* in a backoff.
C32_NextModelResetsDelay ==
    /\ [][Advances =>
            /\ pc[Fg] = "call"
            /\ modelIdx' = modelIdx + 1
            /\ delay' = BaseDelay(variant)
            /\ attempt' = 0
            /\ pc'[Fg] \in {"invoke", "rlwait"}
            /\ pc'[Fg] = "rlwait" => variant = "rl"
            /\ pc'[Fg] = "invoke" => wakeAt' = wakeAt]_vars
    /\ [](pc[Fg] = "backoff" => tries[modelIdx] > 0)
    /\ []((runs > 0 /\ tries[modelIdx] = 0 /\ pc[Fg] # "thrown") =>
             delay = BaseDelay(variant) /\ attempt = 0)

\* The first model was tried three times, the delay growing with each
\* backoff, and the run stands before its first attempt on the second model.
C32_Witness ==
    /\ variant = "rl"
    /\ modelIdx = 2
    /\ tries[1] = 3
    /\ tries[2] = 0
    /\ wakeAt[Fg] >= 12000
    /\ delay = 3000
    /\ pc[Fg] = "invoke"

\* C33: with no credential to resolve, a run of the rate-limited
\* callWithModelFallback does not retry the MissingCredential failure: it
\* makes one attempt on each model of the chain and no more, never waits in
\* a backoff, ends by throwing the MissingCredential error itself, and the
\* governor records one timestamp for each attempt though no request was
\* sent to the remote service.
C33_MissingCredentialNotRetried ==
    runs > 0 =>
        /\ pc[Fg] \notin {"backoff", "returned"}
        /\ \A i \in DOMAIN tries : tries[i] = IF i < modelIdx \/ Finished THEN 1
                                               ELSE IF i = modelIdx /\ pc[Fg] = "call" THEN 1
                                               ELSE 0
        /\ sent = 0
        /\ Len(admitLog) = requests + admits
        /\ admits = attempts + (IF pc[Fg] = "invoke" THEN 1 ELSE 0)
        /\ Finished =>
              /\ outcome = Raw(MissingCredentialError)
              /\ modelIdx = Len(models)
              /\ attempts = Len(models)

\* A run over three models ended with the MissingCredential error after one
\* attempt on each, one of them admitted by the governor after a wait.
C33_Witness ==
    /\ pc[Fg] = "thrown"
    /\ maxRetries = 3
    /\ tries = <<1, 1, 1>>
    /\ outcome = Raw(MissingCredentialError)
    /\ Len(admitLog) = MAX_RPM + 2
    /\ now > 60000
    /\ sent = 0

\* The handlers suspended at the await of the service call op.
Awaiting(op) == Cardinality({k \in DOMAIN inflight : inflight[k].op = op})

\* C34: at most one voice request started by playVoice is outstanding at
\* any time, a request is started only while isAudioLoading is false, and
\* isAudioLoading is false once a playVoice call has completed, whether
\* the synthesis succeeded or failed.
C34_OnePlaybackRequest ==
    /\ [](Awaiting("voice") <= 1)
    /\ [][/\ Awaiting("voice")' > Awaiting("voice") => ~isAudioLoading
          /\ Awaiting("voice")' < Awaiting("voice") => ~isAudioLoading']_vars

\* A playVoice call is waiting for its audio, the flag raised.
C34_Witness ==
    /\ isAudioLoading
    /\ Awaiting("voice") = 1
    /\ status = "REVIEWING"

\* This step is the call of handleGenerate.
Generates == Awaiting("illustration")' > Awaiting("illustration")
\* This step sends the script request.
AsksScript == Awaiting("script")' > Awaiting("script")
\* This step is a handleGenerate ending at the await of its illustration.
IllustrationFails ==
    /\ Awaiting("illustration")' < Awaiting("illustration")
    /\ Len(inflight') < Len(inflight)
\* This step is the script request of a handleGenerate settling.
ScriptComes == Awaiting("script")' < Awaiting("script")
\* This step starts the background voice preload.
Preloads == Awaiting("preload")' > Awaiting("preload")
\* A handleGenerate begun after the latest reset is waiting for a request.
Generating ==
    \E k \in DOMAIN inflight :
        inflight[k].op \in {"illustration", "script"} /\ ~inflight[k].stale

\* C35: handleGenerate sets status to GENERATING, and status then leaves
\* GENERATING, the handler ending with READY and the presentation set or
\* with ERROR and an errorMessage; the script request is sent only by the
\* step in which the illustration request succeeded, a failed illustration
\* ends the handler with no script request, and the voice preload starts
\* only in the step that sets status to READY.
C35_GenerateInOrder ==
    /\ [][/\ Generates => status' = "GENERATING" /\ errorMessage' = "null"
          /\ AsksScript =>
                /\ Awaiting("illustration")' < Awaiting("illustration")
                /\ Len(inflight') = Len(inflight)
                /\ UNCHANGED <<status, errorMessage, presentation>>
          /\ IllustrationFails =>
                /\ ~AsksScript
                /\ status' = "ERROR" /\ errorMessage' # "null"
          /\ ScriptComes =>
                \/ status' = "READY" /\ presentation' # "null" /\ Preloads
                \/ status' = "ERROR" /\ errorMessage' # "null" /\ ~Preloads
          /\ Preloads =>
                ScriptComes /\ status' = "READY" /\ presentation' # "null"]_vars
    /\ [](status = "GENERATING" => Generating)
    /\ (status = "GENERATING" ~> status # "GENERATING")

\* A generation has reached READY and its preload is on its way.
C35_Witness ==
    /\ status = "READY"
    /\ presentation # "null"
    /\ Awaiting("preload") = 1
    /\ errorMessage = "null"

\* This step is a background voice preload ending in its catch block.
PreloadFails == Awaiting("preload")' < Awaiting("preload") /\ preloadFailed'

\* C36: a failure of the background voice preload changes neither status
\* nor errorMessage, so it never moves the App to ERROR, and it leaves
\* teacherAudioUrl as it was; no other hook changes either.
C36_PreloadFailureSilent ==
    [][PreloadFails =>
          /\ UNCHANGED <<status, errorMessage, teacherAudioUrl>>
          /\ UNCHANGED <<presentation, result, showSettings, recordedBlob, lastAlert,
                         isAudioLoading>>]_vars

\* A preload has failed: the practice view is shown, with no error and no
\* file to download.
C36_Witness ==
    /\ preloadFailed
    /\ Awaiting("preload") = 0
    /\ status = "READY"
    /\ errorMessage = "null"
    /\ teacherAudioUrl = "null"

\* This step is a saveSettings that stores the key.
SavesKey == \E apiKey \in SettingsInputs : NonBlank(apiKey) /\ saveSettings(apiKey)

\* C37: a successful saveSettings made while an errorMessage is present
\* clears it and moves status from ERROR to READY when there is a
\* presentation and to IDLE when there is none; a status other than ERROR
\* is left as it is; after the step status is not ERROR with a null
\* errorMessage.
C37_SaveClearsError ==
    [][SavesKey =>
          /\ errorMessage # "null" =>
                /\ errorMessage' = "null"
                /\ status = "ERROR" /\ presentation # "null" => status' = "READY"
                /\ status = "ERROR" /\ presentation = "null" => status' = "IDLE"
          /\ status # "ERROR" => status' = status
          /\ ~(status' = "ERROR" /\ errorMessage' = "null")]_vars

\* A key was saved from the error view of a failed evaluation: the dialog
\* is closed and the practice view is back, the recording still there.
C37_Witness ==
    /\ lastAlert = "Saved"
    /\ ~showSettings
    /\ status = "READY"
    /\ errorMessage = "null"
    /\ presentation # "null"
    /\ recordedBlob = "ok"
    /\ inflight = <<>>

RECURSIVE Power(_, _)
Power(b, e) == IF e = 0 THEN 1 ELSE b * Power(b, e - 1)
\* 1500 ms multiplied by 2.5 once per retry already made, in whole ms.
RetryWait(i) == (1500 * Power(5, i)) \div Power(2, i)
\* This step is a request of callWithRetry rejected with an error.
RequestFails == voice = "inflight" /\ voice' # "resolved" /\ voice' # "inflight"
\* The loop of callWithRetry has turns left after the present one.
TurnsLeft == voiceAttempt < voiceMaxRetries - 1

\* C38: callWithRetry calls fn at most maxRetries times; after a failure it
\* waits and goes round again only when the error has status 429 or holds
\* 'quota' and turns are left, the wait being 1500 ms times 2.5 per retry
\* made before; any other failure, and a rate-limited one in the last
\* turn, rejects with the very error of fn and no further request; for
\* maxRetries >= 1 the error that follows the loop is never thrown.
C38_RetryOnlyOnQuota ==
    /\ [][/\ voiceRequests' > voiceRequests => voiceAttempt' < voiceMaxRetries'
          /\ (RequestFails /\ voice' = "backoff") =>
                /\ IsQuota(voiceError') /\ TurnsLeft
                /\ voiceWakeAt' = now + RetryWait(voiceAttempt)
          /\ (voice = "backoff" /\ voice' = "inflight") => now >= voiceWakeAt
          /\ (RequestFails /\ ~(IsQuota(voiceError') /\ TurnsLeft)) =>
                /\ voice' = "rejected"
                /\ voiceThrown' = voiceError' /\ voiceThrown' # None
                /\ voiceRequests' = voiceRequests]_vars
    /\ [](voiceMaxRetries >= 1 => voiceThrown # ServerBusyError)
    /\ []((voice = "rejected" /\ voiceMaxRetries >= 1) => voiceThrown = voiceError)

\* A call with maxRetries = 4 has waited 1500, 3750 and 9375 ms and its
\* fourth request has been refused with status 429, which it rethrows.
C38_Witness ==
    /\ voice = "rejected"
    /\ voiceMaxRetries = 4
    /\ voiceAttempt = 3
    /\ voiceThrown = [status |-> 429, body |-> {}]
    /\ voiceCalls = 1
    /\ voiceRequests = 4
    /\ now = 14625
====
